---- MODULE Spec2Model ----
(***************************************************************************)
(* A model of the classical post-processing core of Quaspy: the reduced    *)
(* CandidateCollection, the FactorCollection, the algorithms that recover  *)
(* a missing cm-smooth component of the order r (Alg. 1-3 of [E24]), the   *)
(* offset scan of solve_j_for_r, and the solver solve_r_for_factors.       *)
(***************************************************************************)
EXTENDS Integers, Sequences, FiniteSets, Bags, TLC

(***************************************************************************)
(* Bounds of the model.                                                    *)
(***************************************************************************)
\* Largest candidate for r_tilde that is added to a CandidateCollection.
MaxCand == 12
\* Largest integer N a FactorCollection is created from.
MaxN == 48
\* Largest m (r < 2^m) in a direct call of algorithm1, algorithm2, algorithm3.
MaxM == 4
\* Largest smoothness parameter c.
MaxC == 2
\* Largest length m + l of the control register in solve_j_for_r.
MaxML == 5
\* Largest bound B on the offset in j in solve_j_for_r.
MaxB == 2
\* Largest multiplier k used when testing that the collection is closed
\* under multiplication by positive integers.
MaxMult == 3
\* solve_r_for_factors: the largest N factored.
MaxSRN == 21
\* solve_r_for_factors: the largest iteration limit k.
MaxK == 1
\* continued_fractions: the largest length m + l.
MaxCFML == 7
\* algorithm4: the largest candidate for r_tilde in the set S.
MaxA4 == 6
MaxLag == 3
MaxLagA == 1
MaxLagM == 1
MaxLll == 2
MaxLllML == 2
MaxTau == 1
MaxCvp == 2
MaxT == 1
MaxCoef == 2
MaxSeconds == 4
MaxNow == 6
MaxJFN == 21
MaxLoopA == 1
MaxJKML == 3
MaxRadius == 6

VARIABLES
  candidates,   \* CandidateCollection: the stored set of candidates
  ccAdded,      \* history: every candidate passed to CandidateCollection.add
  ccRet,        \* the value returned by the last CandidateCollection.add
  ccArg,        \* the candidate passed to the last CandidateCollection.add
                \* (0 before the first call)
  fcN,          \* FactorCollection: the integer N it was created from
  factors,      \* FactorCollection: a bag of [f, prime], the factors held
                \* with multiplicity, each with its primality flag
  algIn,        \* algorithm1-3: the arguments [g, r_tilde, m, c] of the call
  algRes,       \* algorithm1-3: [alg, val], the algorithm called and the
                \* value it returned
  sjIn,         \* solve_j_for_r: the arguments of the call
  sjPc,         \* solve_j_for_r: "idle", "scan", "returned", "timed_out" or
                \* "domain_error"
  sjIdx,        \* solve_j_for_r: how many offsets have been processed
  sjBest,       \* solve_j_for_r: [r, off], the minimum r found such that
                \* g^r = 1 and the offset that produced it
  sjFailed,     \* solve_j_for_r: the offsets that yielded no such r
  sjVisited,    \* history: the frequencies solved for r_tilde so far
  sjResult,     \* solve_j_for_r: the value returned
  sjElapsed,    \* solve_j_for_r: whether the timeout has elapsed
  srIn,         \* solve_r_for_factors: the arguments of the call
  srPc,         \* solve_r_for_factors: "idle", "start", "loop", "returned"
                \* or "raised" (IncompleteFactorizationException)
  srIter,       \* solve_r_for_factors: the iterations performed
  srElapsed,    \* solve_r_for_factors: whether the timeout has elapsed
  srResult,     \* solve_r_for_factors: the set returned, or the set of
                \* factors the exception carries
  pfIn,         \* a call of one of the functions without state
                \* (continued_fractions, algorithm4, lagrange, lll,
                \* solve_cvp): [fn, ..], the function and its arguments
  pfOut         \* that call: [done, error, val], whether it has returned,
                \* whether it raised an error, and the value returned

vars == <<candidates, ccAdded, ccRet, ccArg, fcN, factors, algIn, algRes,
          sjIn, sjPc, sjIdx, sjBest, sjFailed, sjVisited, sjResult,
          sjElapsed, srIn, srPc, srIter, srElapsed, srResult,
          pfIn, pfOut>>
pfVars == <<pfIn, pfOut>>
srVars == <<srIn, srPc, srIter, srElapsed, srResult>>
sjVars == <<sjIn, sjPc, sjIdx, sjBest, sjFailed, sjVisited, sjResult,
            sjElapsed>>
algVars == <<algIn, algRes>>
ccVars == <<candidates, ccAdded, ccRet, ccArg>>
fcVars == <<fcN, factors>>

(***************************************************************************)
(* Arithmetic kernel.                                                      *)
(***************************************************************************)
\* a divides b, by exhibiting the cofactor (a, b positive).
Divides(a, b) == \E k \in 1..b : a * k = b

RECURSIVE GCD(_, _)
GCD(a, b) == IF b = 0 THEN a ELSE GCD(b, a % b)

IsPrime(n) == n > 1 /\ \A q \in 2..(n - 1) : n % q # 0

\* The absent value (None) of the algorithms and solvers.
None == -1

\* The largest non-negative e such that q^e <= B.
RECURSIVE MaxExp(_, _)
MaxExp(q, B) == IF q > B THEN 0 ELSE 1 + MaxExp(q, B \div q)

\* prime_range, as a set: the primes less than B.
PrimeRange(B) == {q \in 2..(B - 1) : IsPrime(q)}

RECURSIVE PrimePowerProductOver(_, _)
PrimePowerProductOver(Q, B) ==
  IF Q = {} THEN 1
  ELSE LET q == CHOOSE x \in Q : TRUE
       IN  (q ^ MaxExp(q, B)) * PrimePowerProductOver(Q \ {q}, B)

\* prime_power_product: the product of q^e, as q runs over all primes <= B,
\* for e the largest exponent such that q^e <= B.
PrimePowerProductBelow(B) == PrimePowerProductOver(PrimeRange(B), B)
PrimePowerProduct(B) == PrimePowerProductOver(PrimeRange(B + 1), B)

\* The largest e such that q^e divides d (d positive).
RECURSIVE Valuation(_, _)
Valuation(q, d) == IF d % q # 0 THEN 0 ELSE 1 + Valuation(q, d \div q)

\* is_B_smooth: every prime power q^e in the factorisation of d is <= B.
IsBSmooth(d, B) ==
  \A q \in 2..d : (IsPrime(q) /\ d % q = 0) => q ^ Valuation(q, d) <= B

(***************************************************************************)
(* SimulatedCyclicGroupElement: the element G^exp, for G a generator of a  *)
(* cyclic group of the given order.                                        *)
(***************************************************************************)
GElement(r, d) == [order |-> r, exp |-> d % r]

\* __pow__: g^e.
GPow(g, e) == [order |-> g.order, exp |-> (g.exp * (e % g.order)) % g.order]

\* __eq__ against the identity: g == 1.
GIsOne(g) == g.exp = 0

\* The order of g: the least positive r such that g^r is the identity.
GOrder(g) == CHOOSE r \in 1..g.order :
               /\ GIsOne(GPow(g, r))
               /\ \A k \in 1..(r - 1) : ~GIsOne(GPow(g, k))

(***************************************************************************)
(* CandidateCollection.                                                    *)
(***************************************************************************)
\* CandidateCollection.__contains__: the candidate is in the collection
\* when it is a multiple of a stored candidate.
CCContainsReversed(S, candidate) == \E c \in S : c % candidate = 0
CCContains(S, candidate) == \E c \in S : candidate % c = 0

\* CandidateCollection.add: returns [set, ret], the stored set after the
\* call and whether the collection was modified.
CCAddAlwaysInserts(S, candidate) ==
  [set |-> {c \in S : c % candidate # 0} \cup {candidate}, ret |-> TRUE]
CCAddUnlessStored(S, candidate) ==
  IF candidate \in S
    THEN [set |-> S, ret |-> FALSE]
    ELSE [set |-> {c \in S : c % candidate # 0} \cup {candidate},
          ret |-> TRUE]
CCAddNoFilter(S, candidate) ==
  IF CCContains(S, candidate)
    THEN [set |-> S, ret |-> FALSE]
    ELSE [set |-> S \cup {candidate}, ret |-> TRUE]
CCAdd(S, candidate) ==
  IF CCContains(S, candidate)
    THEN [set |-> S, ret |-> FALSE]
    ELSE [set |-> {c \in S : c % candidate # 0} \cup {candidate},
          ret |-> TRUE]

CCIdle ==
  /\ candidates = {}
  /\ ccAdded = {}
  /\ ccRet = FALSE
  /\ ccArg = 0

FCIdle ==
  /\ fcN = 1
  /\ factors = EmptyBag

NoCall == [alg |-> 0, val |-> 0]

AlgIdle ==
  /\ algIn = [g |-> [order |-> 1, exp |-> 0], r_tilde |-> 1, m |-> 1, c |-> 1]
  /\ algRes = NoCall

NoBest == [r |-> None, off |-> 0]

SJIdle ==
  /\ sjIn = [j |-> 0, m |-> 1, l |-> 1, g |-> [order |-> 1, exp |-> 0],
             c |-> 1, B |-> 0, accept_multiple |-> FALSE,
             timeout |-> FALSE, opt_speculative |-> TRUE,
             opt_isolate_peak |-> TRUE]
  /\ sjPc = "idle"
  /\ sjIdx = 0
  /\ sjBest = NoBest
  /\ sjFailed = {}
  /\ sjVisited = {}
  /\ sjResult = None
  /\ sjElapsed = FALSE

SRDefaults ==
  [split_factors_with_multiplicity |-> TRUE,
   report_accidental_factors |-> TRUE, abort_early |-> TRUE,
   square |-> TRUE, exclude_one |-> TRUE,
   process_composite_factors |-> "SEPARATELY_MOD_Np"]

SRIdle ==
  /\ srIn = [r |-> 1, N |-> 1, c |-> 1, k |-> None, timeout |-> FALSE,
             opt |-> SRDefaults]
  /\ srPc = "idle"
  /\ srIter = 0
  /\ srElapsed = FALSE
  /\ srResult = {}

NoReturn == [done |-> FALSE, error |-> FALSE, val |-> << >>]

PFIdle ==
  /\ pfIn = [fn |-> "none"]
  /\ pfOut = NoReturn

InitCC ==
  /\ SRIdle
  /\ PFIdle
  /\ CCIdle
  /\ FCIdle
  /\ AlgIdle
  /\ SJIdle

CCAddCall ==
  \E c \in 1..MaxCand :
    /\ candidates' = CCAdd(candidates, c).set
    /\ ccRet' = CCAdd(candidates, c).ret
    /\ ccAdded' = ccAdded \cup {c}
    /\ ccArg' = c
    /\ UNCHANGED <<fcVars, algVars, pfVars, sjVars, srVars>>

NextCC == CCAddCall

SpecCC == InitCC /\ [][NextCC]_vars

(***************************************************************************)
(* FactorCollection.                                                       *)
(***************************************************************************)
\* The bag with exactly one copy of e.
OneBag(e) == SetToBag({e})

\* The bag B with the multiplicity of every element multiplied by k.
BagTimes(B, k) == [e \in DOMAIN B |-> B[e] * k]

\* The product of the factors of a bag of [f, prime], with multiplicity.
RECURSIVE FCProductOver(_, _)
FCProductOver(F, S) ==
  IF S = {} THEN 1
  ELSE LET e == CHOOSE x \in S : TRUE
       IN  (e.f ^ F[e]) * FCProductOver(F, S \ {e})
FCProduct(F) == FCProductOver(F, DOMAIN F)

\* Labels a factor with its primality (the primality test is treated as
\* exact).
FCLabelAlwaysComposite(f) == [f |-> f, prime |-> FALSE]
FCLabelOddIsPrime(f) == [f |-> f, prime |-> f = 2 \/ f % 2 = 1]
FCLabel(f) == [f |-> f, prime |-> IsPrime(f)]

\* FactorCollection.__init__: the collection that holds N itself.
FCNew(N) == OneBag(FCLabel(N))

\* The pieces a composite factor f is split into by d: g = gcd(f, d) is
\* computed and divided out of f repeatedly, until f and d are coprime;
\* the pieces are the common factors divided out and what is left of f.
RECURSIVE FCSplitDropCommon(_, _)
FCSplitDropCommon(f, d) ==
  LET g == GCD(f, d)
  IN  IF g = 1
        THEN (IF f > 1 THEN OneBag(FCLabel(f)) ELSE EmptyBag)
        ELSE FCSplitDropCommon(f \div g, d)
RECURSIVE FCSplit(_, _)
FCSplit(f, d) ==
  LET g == GCD(f, d)
  IN  IF g = 1
        THEN (IF f > 1 THEN OneBag(FCLabel(f)) ELSE EmptyBag)
        ELSE OneBag(FCLabel(g)) (+) FCSplit(f \div g, d)

\* FactorCollection.add: splits every composite factor held by d and labels
\* the results; the factors flagged prime are left alone.
RECURSIVE FCAddOver(_, _, _)
FCAddOver(F, S, d) ==
  IF S = {} THEN EmptyBag
  ELSE LET e == CHOOSE x \in S : TRUE
           pieces == IF e.prime THEN OneBag(e) ELSE FCSplit(e.f, d)
       IN  BagTimes(pieces, F[e]) (+) FCAddOver(F, S \ {e}, d)
FCAdd(F, d) == FCAddOver(F, DOMAIN F, d)

\* FactorCollection.is_complete: every factor held is flagged prime.
FCIsCompleteAnyPrime(F) == \E e \in DOMAIN F : e.prime
FCIsComplete(F) == \A e \in DOMAIN F : e.prime

InitFC ==
  /\ SRIdle
  /\ PFIdle
  /\ CCIdle
  /\ AlgIdle
  /\ SJIdle
  /\ fcN \in 2..MaxN
  /\ factors = FCNew(fcN)

FCAddCall ==
  \E d \in 1..fcN :
    /\ factors' = FCAdd(factors, d)
    /\ UNCHANGED <<fcN, ccVars, algVars, pfVars, sjVars, srVars>>

NextFC == FCAddCall

SpecFC == InitFC /\ [][NextFC]_vars

(***************************************************************************)
(* Algorithms 1-3: recovering the missing cm-smooth component of r.        *)
(***************************************************************************)
\* is_valid_r_tilde: r_tilde is an integer on [1, 2^m).
IsValidRTilde(r_tilde, m) == r_tilde >= 1 /\ r_tilde < 2 ^ m

\* algorithm1: r_tilde * P for P = prime_power_product(cm) if g raised to
\* it is the identity, None otherwise.
Algorithm1Unchecked(g, r_tilde, m, c) ==
  r_tilde * PrimePowerProduct(c * m)
Algorithm1(g, r_tilde, m, c) ==
  LET rp == r_tilde * PrimePowerProduct(c * m)
  IN  IF GIsOne(GPow(g, rp)) THEN rp ELSE None

\* algorithm2 with loops that are not bounded by the exponents of the
\* prime powers: the primes q <= cm are divided out of r_tilde * P for as
\* long as q divides it and the result still takes g to the identity.
RECURSIVE ShaveUnbounded(_, _, _)
ShaveUnbounded(g, rp, q) ==
  IF rp % q = 0 /\ GIsOne(GPow(g, rp \div q))
    THEN ShaveUnbounded(g, rp \div q, q)
    ELSE rp

RECURSIVE ShaveAllUnbounded(_, _, _)
ShaveAllUnbounded(g, rp, Q) ==
  IF Q = {} THEN rp
  ELSE LET q == CHOOSE x \in Q : \A y \in Q : x <= y
       IN  ShaveAllUnbounded(g, ShaveUnbounded(g, rp, q), Q \ {q})

\* The loop of algorithm2 for the prime power q^e <= cm, e = n: while q
\* divides rp and g^(rp / q) is the identity, rp is replaced by rp / q, at
\* most n times, so that q is divided out of the factor q^e of P only.
RECURSIVE Shave(_, _, _, _)
Shave(g, rp, q, n) ==
  IF n > 0 /\ rp % q = 0 /\ GIsOne(GPow(g, rp \div q))
    THEN Shave(g, rp \div q, q, n - 1)
    ELSE rp

\* The loops of algorithm2 for the primes of Q, in ascending order.
RECURSIVE ShaveAll(_, _, _, _)
ShaveAll(g, rp, Q, B) ==
  IF Q = {} THEN rp
  ELSE LET q == CHOOSE x \in Q : \A y \in Q : x <= y
       IN  ShaveAll(g, Shave(g, rp, q, MaxExp(q, B)), Q \ {q}, B)

\* algorithm2: starts from r_tilde * P and divides the primes q <= cm out
\* of it for as long as the result still takes g to the identity.
Algorithm2Unbounded(g, r_tilde, m, c) ==
  LET rp == r_tilde * PrimePowerProduct(c * m)
  IN  IF GIsOne(GPow(g, rp))
        THEN ShaveAllUnbounded(g, rp, PrimeRange(c * m + 1))
        ELSE None
Algorithm2(g, r_tilde, m, c) ==
  LET rp == r_tilde * PrimePowerProduct(c * m)
  IN  IF GIsOne(GPow(g, rp))
        THEN ShaveAll(g, rp, PrimeRange(c * m + 1), c * m)
        ELSE None

\* For the prime q of algorithm3: the least e such that g is taken to the
\* identity by r_tilde * q^e * (the prime powers of the other primes).
Algorithm3Exponent(g, r_tilde, P, q, emax) ==
  CHOOSE e \in 0..emax :
    /\ GIsOne(GPow(g, r_tilde * (P \div (q ^ emax)) * (q ^ e)))
    /\ \A e2 \in 0..(e - 1) :
         ~GIsOne(GPow(g, r_tilde * (P \div (q ^ emax)) * (q ^ e2)))

RECURSIVE Algorithm3Combine(_, _, _, _, _)
Algorithm3Combine(g, r_tilde, P, B, Q) ==
  IF Q = {} THEN 1
  ELSE LET q == CHOOSE x \in Q : TRUE
       IN  (q ^ Algorithm3Exponent(g, r_tilde, P, q, MaxExp(q, B)))
             * Algorithm3Combine(g, r_tilde, P, B, Q \ {q})

\* algorithm3: for each prime q <= cm searches for the exponent e with
\* q^e <= cm that is needed, and combines the prime powers found
\* multiplicatively with r_tilde.
Algorithm3ChecksRTildeOnly(g, r_tilde, m, c) ==
  LET P == PrimePowerProduct(c * m)
  IN  IF GIsOne(GPow(g, r_tilde))
        THEN r_tilde * Algorithm3Combine(g, r_tilde, P, c * m,
                                         PrimeRange(c * m + 1))
        ELSE None
Algorithm3(g, r_tilde, m, c) ==
  LET P == PrimePowerProduct(c * m)
  IN  IF GIsOne(GPow(g, r_tilde * P))
        THEN r_tilde * Algorithm3Combine(g, r_tilde, P, c * m,
                                         PrimeRange(c * m + 1))
        ELSE None

\* algorithm4: the subset of the candidates r_tilde of S for which
\* algorithm1 succeeds, i.e. such that g^(r_tilde * P) is the identity.
Algorithm4WithoutP(g, S, m, c) ==
  {r_tilde \in S : GIsOne(GPow(g, r_tilde))}
Algorithm4(g, S, m, c) ==
  {r_tilde \in S : Algorithm1(g, r_tilde, m, c) # None}

InitAlg ==
  /\ SRIdle
  /\ PFIdle
  /\ CCIdle
  /\ FCIdle
  /\ SJIdle
  /\ \E m \in 1..MaxM : \E c \in 1..MaxC :
     \E r \in 1..(2 ^ m - 1) : \E d \in 0..(r - 1) :
     \E rt \in 1..(2 ^ m - 1) :
       algIn = [g |-> GElement(r, d), r_tilde |-> rt, m |-> m, c |-> c]
  /\ algRes = NoCall

AlgCall(k, val) ==
  /\ sjPc = "idle"
  /\ algRes = NoCall
  /\ algRes' = [alg |-> k, val |-> val]
  /\ UNCHANGED <<algIn, pfVars, ccVars, fcVars, sjVars, srVars>>

Algorithm1Call ==
  AlgCall(1, Algorithm1(algIn.g, algIn.r_tilde, algIn.m, algIn.c))

Algorithm2Call ==
  AlgCall(2, Algorithm2(algIn.g, algIn.r_tilde, algIn.m, algIn.c))

Algorithm3Call ==
  AlgCall(3, Algorithm3(algIn.g, algIn.r_tilde, algIn.m, algIn.c))

NextAlg == Algorithm1Call \/ Algorithm2Call \/ Algorithm3Call

SpecAlg == InitAlg /\ [][NextAlg]_vars

(***************************************************************************)
(* Continued fractions.                                                    *)
(***************************************************************************)
\* The denominators of the convergents of num / den that follow the
\* denominator qCur, for as long as their square is less than bound2.
RECURSIVE CFExpand(_, _, _, _, _)
CFExpand(num, den, qPrev, qCur, bound2) ==
  IF den = 0 THEN << >>
  ELSE LET a == num \div den
           qNext == a * qCur + qPrev
       IN  IF qNext * qNext >= bound2 THEN << >>
           ELSE <<qNext>> \o CFExpand(den, num % den, qCur, qNext, bound2)

\* continued_fractions, for j on [0, 2^(m + l)): the ordered list of the
\* denominators < 2^((m + l) / 2) of the expansion of j / 2^(m + l).
ContinuedFractionsFloorBound(j, m, l) ==
  LET b == CHOOSE x \in 0..(2 ^ (m + l)) :
             x * x <= 2 ^ (m + l) /\ (x + 1) * (x + 1) > 2 ^ (m + l)
  IN  CFExpand(2 ^ (m + l), j, 0, 1, b * b)
ContinuedFractionsWithZeroth(j, m, l) ==
  <<1>> \o CFExpand(2 ^ (m + l), j, 0, 1, 2 ^ (m + l))
ContinuedFractions(j, m, l) ==
  CFExpand(2 ^ (m + l), j, 0, 1, 2 ^ (m + l))

\* solve_j_for_r_tilde_continued_fractions: the last denominator
\* < 2^((m + l) / 2) in the expansion of j / 2^(m + l); the expansion of
\* every j starts with the convergent 0 / 1, of denominator 1.
SolveJForRTildeCFFirst(j, m, l) ==
  LET qs == ContinuedFractions(j, m, l)
  IN  IF qs = << >> THEN 1 ELSE qs[1]
SolveJForRTildeCF(j, m, l) ==
  LET qs == ContinuedFractions(j, m, l)
  IN  IF qs = << >> THEN 1 ELSE qs[Len(qs)]

(***************************************************************************)
(* solve_j_for_r: the scan of the offsets 0, +1, -1, .., +B, -B in j.      *)
(***************************************************************************)
\* The offset processed after idx offsets have been: 0, +1, -1, +2, -2, ..
OffsetNegativeFirst(idx) ==
  IF idx = 0 THEN 0
  ELSE IF idx % 2 = 1 THEN 0 - ((idx + 1) \div 2) ELSE idx \div 2
Offset(idx) ==
  IF idx = 0 THEN 0
  ELSE IF idx % 2 = 1 THEN (idx + 1) \div 2 ELSE 0 - (idx \div 2)

\* The peak isolation rule: an r has been found, and an offset on each side
\* of the offset that produced it has failed to yield an r with g^r = 1.
PeakIsolatedOnOneSide ==
  /\ sjIn.opt_isolate_peak
  /\ sjBest # NoBest
  /\ \E f \in sjFailed : f # sjBest.off
PeakIsolated ==
  /\ sjIn.opt_isolate_peak
  /\ sjBest # NoBest
  /\ \E f \in sjFailed : f < sjBest.off
  /\ \E f \in sjFailed : f > sjBest.off

\* The algorithm that processes a candidate for r_tilde.
ProcessRTilde(r_tilde) ==
  IF sjIn.accept_multiple
    THEN Algorithm1(sjIn.g, r_tilde, sjIn.m, sjIn.c)
    ELSE IF sjIn.opt_speculative
           THEN Algorithm2(sjIn.g, r_tilde, sjIn.m, sjIn.c)
           ELSE Algorithm3(sjIn.g, r_tilde, sjIn.m, sjIn.c)

\* The order-finding example: r = 23, m = l = 5, j = 1000.
SJExample ==
  [j |-> 1000, m |-> 5, l |-> 5, g |-> GElement(23, 1), c |-> 1, B |-> 25,
   accept_multiple |-> FALSE, timeout |-> FALSE, opt_speculative |-> TRUE,
   opt_isolate_peak |-> TRUE]

\* The state at the call of solve_j_for_r, with a timeout (TRUE) or with
\* timeout = None (FALSE) as TO says.
InitSJWith(TO) ==
  /\ SRIdle
  /\ PFIdle
  /\ CCIdle
  /\ FCIdle
  /\ AlgIdle
  /\ \/ \E m \in 1..MaxML : \E l \in 1..m : \E j \in 0..(2 ^ (m + l) - 1) :
        \E r \in 1..(2 ^ m - 1) : \E B \in 0..MaxB :
        \E am \in BOOLEAN : \E to \in TO :
        \E sp \in BOOLEAN : \E ip \in BOOLEAN :
          /\ m + l <= MaxML
          /\ sjIn = [j |-> j, m |-> m, l |-> l, g |-> GElement(r, 1),
                     c |-> 1, B |-> B, accept_multiple |-> am,
                     timeout |-> to, opt_speculative |-> sp,
                     opt_isolate_peak |-> ip]
     \/ \E to \in TO : sjIn = [SJExample EXCEPT !.timeout = to]
  /\ sjPc = "scan"
  /\ sjIdx = 0
  /\ sjBest = NoBest
  /\ sjFailed = {}
  /\ sjVisited = {}
  /\ sjResult = None
  /\ sjElapsed = FALSE

InitSJ == InitSJWith({FALSE})

InitSJT == InitSJWith({TRUE})

\* The timeout, when one is given, elapses at some moment.
SJTimeoutElapses ==
  /\ sjPc = "scan"
  /\ sjIn.timeout
  /\ ~sjElapsed
  /\ sjElapsed' = TRUE
  /\ UNCHANGED <<sjIn, sjPc, sjIdx, sjBest, sjFailed, sjVisited, sjResult,
                 ccVars, fcVars, algVars, pfVars,
                 srVars>>

\* The timeout check at the head of the offset loop raises
\* IncompleteFactorizationException.
SJTimedOutAsIncomplete ==
  /\ sjPc = "scan"
  /\ sjElapsed
  /\ srPc' = "raised"
  /\ UNCHANGED <<sjVars, srIn, srIter, srElapsed, srResult, ccVars, fcVars,
                 algVars, pfVars>>

\* The timeout check at the head of the offset loop raises TimeoutError.
SJTimedOut ==
  /\ sjPc = "scan"
  /\ sjElapsed
  /\ sjPc' = "timed_out"
  /\ UNCHANGED <<sjIn, sjIdx, sjBest, sjFailed, sjVisited, sjResult,
                 sjElapsed, ccVars, fcVars, algVars, pfVars,
                 srVars>>

\* The scan ends, the offsets up to B being exhausted or the peak isolated:
\* the minimum r found is returned (None if none was found).
SJReturnBest ==
  /\ sjPc = "scan"
  /\ ~sjElapsed
  /\ sjIdx > 2 * sjIn.B \/ PeakIsolated
  /\ sjPc' = "returned"
  /\ sjResult' = sjBest.r
  /\ UNCHANGED <<sjIn, sjIdx, sjBest, sjFailed, sjVisited, sjElapsed,
                 ccVars, fcVars, algVars, pfVars,
                 srVars>>

\* The next frequency j + offset is not on [0, 2^(m + l)): solving it for
\* r_tilde fails.
SJDomainError ==
  /\ sjPc = "scan"
  /\ ~sjElapsed
  /\ sjIdx <= 2 * sjIn.B /\ ~PeakIsolated
  /\ LET f == sjIn.j + Offset(sjIdx)
     IN  f < 0 \/ f >= 2 ^ (sjIn.m + sjIn.l)
  /\ sjPc' = "domain_error"
  /\ UNCHANGED <<sjIn, sjIdx, sjBest, sjFailed, sjVisited, sjResult,
                 sjElapsed, ccVars, fcVars, algVars, pfVars,
                 srVars>>

\* The next frequency j + offset is solved for r_tilde; a valid r_tilde
\* that is not in the collection of candidates is processed for r, and
\* added to the collection if an r with g^r = 1 is found.
SJSolveOffset ==
  /\ sjPc = "scan"
  /\ ~sjElapsed
  /\ sjIdx <= 2 * sjIn.B /\ ~PeakIsolated
  /\ LET off == Offset(sjIdx)
         f == sjIn.j + off
         r_tilde == SolveJForRTildeCF(f, sjIn.m, sjIn.l)
         valid == IsValidRTilde(r_tilde, sjIn.m)
         known == valid /\ CCContains(candidates, r_tilde)
         rp == IF valid /\ ~known THEN ProcessRTilde(r_tilde) ELSE None
         added == CCAdd(candidates, r_tilde)
     IN  /\ f >= 0 /\ f < 2 ^ (sjIn.m + sjIn.l)
         /\ sjVisited' = sjVisited \cup {f}
         /\ sjIdx' = sjIdx + 1
         /\ IF rp # None
              THEN /\ candidates' = added.set
                   /\ ccRet' = added.ret
                   /\ ccAdded' = ccAdded \cup {r_tilde}
                   /\ ccArg' = r_tilde
              ELSE UNCHANGED ccVars
         /\ sjFailed' = IF rp = None /\ ~known
                          THEN sjFailed \cup {off} ELSE sjFailed
         /\ sjBest' = IF rp # None /\ (sjBest = NoBest \/ rp < sjBest.r)
                        THEN [r |-> rp, off |-> off] ELSE sjBest
         /\ IF rp # None /\ sjIn.accept_multiple
              THEN sjPc' = "returned" /\ sjResult' = rp
              ELSE UNCHANGED <<sjPc, sjResult>>
  /\ UNCHANGED <<sjIn, sjElapsed, fcVars, algVars, pfVars,
                 srVars>>

\* solve_j_for_r called with timeout = None.
NextSJ ==
  \/ SJReturnBest
  \/ SJDomainError
  \/ SJSolveOffset

SpecSJ == InitSJ /\ [][NextSJ]_vars

\* solve_j_for_r called with a timeout.
NextSJT ==
  \/ SJTimeoutElapses
  \/ SJTimedOut
  \/ NextSJ

SpecSJT == InitSJT /\ [][NextSJT]_vars

\* Direct calls of the algorithms, and calls of solve_j_for_r.
SpecOrder == (InitAlg \/ InitSJ) /\ [][NextAlg \/ NextSJ]_vars

(***************************************************************************)
(* solve_r_for_factors: factoring N completely given the order r.          *)
(***************************************************************************)
\* kappa: the t such that x = 2^t * o, for o odd (x positive).
Kappa(x) == Valuation(2, x)

\* The least t such that n <= 2^t.
RECURSIVE CeilLog2(_)
CeilLog2(n) == IF n <= 1 THEN 0 ELSE 1 + CeilLog2((n + 1) \div 2)

\* x^e mod n, by squaring and multiplying.
RECURSIVE PowMod(_, _, _)
PowMod(x, e, n) ==
  IF e = 0 THEN 1 % n
  ELSE LET h == PowMod(x, e \div 2, n)
       IN  IF e % 2 = 0 THEN (h * h) % n ELSE (((h * h) % n) * x) % n

\* The order of x in the multiplicative group modulo N (x coprime to N).
MultiplicativeOrder(x, N) ==
  CHOOSE r \in 1..N : /\ PowMod(x, r, N) = 1 % N
                      /\ \A k \in 1..(r - 1) : PowMod(x, k, N) # 1 % N

RECURSIVE SetProduct(_)
SetProduct(S) ==
  IF S = {} THEN 1
  ELSE LET e == CHOOSE x \in S : TRUE IN e * SetProduct(S \ {e})

\* The factors a collection holds, as a set.
FCSet(F) == {e.f : e \in DOMAIN F}

\* The composite factors a collection holds.
FCComposites(F) == {e.f : e \in {x \in DOMAIN F : ~x.prime}}

\* N': N itself, or the product of the composite factors in the collection.
SRNp(F, N, mode) ==
  IF mode = "JOINTLY_MOD_N" THEN N ELSE SetProduct(FCComposites(F))

\* The moduli x is exponentiated modulo: N' itself, or each composite
\* factor in the collection in turn.
SRModuli(F, N, mode) ==
  IF mode = "SEPARATELY_MOD_Np" THEN FCComposites(F)
  ELSE {SRNp(F, N, mode)}

\* The range x is sampled from: [1, N'), or [2, N') when one is excluded.
SRSampleRangeOfUnits(Np, exclude_one) ==
  {x \in (IF exclude_one THEN 2 ELSE 1)..(Np - 1) : GCD(x, Np) = 1}
SRSampleRange(Np, exclude_one) == (IF exclude_one THEN 2 ELSE 1)..(Np - 1)

\* The exponent o = prime_power_product(c * ceil(log2 N)) * r / 2^kappa(r).
SRExponent(r, N, c) ==
  PrimePowerProduct(c * CeilLog2(N)) * (r \div (2 ^ Kappa(r)))

\* For i = i, .., t, and y = x^(2^i o) mod M: gcd(y - 1, M) and
\* gcd(y + 1, M) are added to the collection; with abort_early, i stops at
\* the least s such that x^(2^s o) = 1. With square, y is squared to step
\* i; otherwise x^(2^i o) is computed from scratch.
RECURSIVE SRSquarings(_, _, _, _, _, _, _, _)
SRSquarings(F, x, o, y, M, i, t, opt) ==
  IF i > t THEN F
  ELSE LET F1 == FCAdd(FCAdd(F, GCD(y - 1, M)), GCD(y + 1, M))
           y1 == IF opt.square THEN (y * y) % M
                 ELSE PowMod(x, (2 ^ (i + 1)) * o, M)
       IN  IF opt.abort_early /\ y = 1 THEN F1
           ELSE SRSquarings(F1, x, o, y1, M, i + 1, t, opt)

\* One iteration, for the sampled x: x is exponentiated modulo each of the
\* moduli Ms.
RECURSIVE SRProcess(_, _, _, _, _, _)
SRProcess(F, x, o, t, Ms, opt) ==
  IF Ms = {} THEN F
  ELSE LET M == CHOOSE n \in Ms : TRUE
           F1 == SRSquarings(F, x, o, PowMod(x, o, M), M, 0, t, opt)
       IN  SRProcess(F1, x, o, t, Ms \ {M}, opt)

\* The iteration limit k, if one is given, has been used up.
SRLimitReachedIgnoringNone(k, i) == i >= k
SRLimitReached(k, i) == k # None /\ i >= k

\* The settings of the optimizations: the defaults, and the settings
\* that depart from the defaults in one or two of the options.
SROptions ==
  {opt \in [split_factors_with_multiplicity : BOOLEAN,
            report_accidental_factors : BOOLEAN, abort_early : BOOLEAN,
            square : BOOLEAN, exclude_one : BOOLEAN,
            process_composite_factors :
              {"JOINTLY_MOD_N", "JOINTLY_MOD_Np", "SEPARATELY_MOD_Np"}] :
     Cardinality({n \in DOMAIN opt : opt[n] # SRDefaults[n]}) <= 2}

\* The state at the call of solve_r_for_factors: r is a positive multiple
\* of the order of an element g of the multiplicative group modulo N.
InitSR ==
  /\ PFIdle
  /\ CCIdle
  /\ FCIdle
  /\ AlgIdle
  /\ SJIdle
  /\ \E N \in 2..MaxSRN : \E g \in 1..(N - 1) : \E mult \in {1, 2} :
     \E c \in 1..MaxC : \E k \in {None} \cup 0..MaxK :
     \E to \in BOOLEAN : \E opt \in SROptions :
       /\ GCD(g, N) = 1
       /\ srIn = [r |-> MultiplicativeOrder(g, N) * mult, N |-> N, c |-> c,
                  k |-> k, timeout |-> to, opt |-> opt]
  /\ srPc = "start"
  /\ srIter = 0
  /\ srElapsed = FALSE
  /\ srResult = {}

\* The collection is initialised from N; with split_factors_with_
\* multiplicity, gcd(r, N) is added to it.
SRStart ==
  /\ srPc = "start"
  /\ srPc' = "loop"
  /\ fcN' = srIn.N
  /\ factors' = IF srIn.opt.split_factors_with_multiplicity
                  THEN FCAdd(FCNew(srIn.N), GCD(srIn.r, srIn.N))
                  ELSE FCNew(srIn.N)
  /\ UNCHANGED <<srIn, srIter, srElapsed, srResult, ccVars, algVars,
                 pfVars, sjVars>>

\* The timeout, when one is given, elapses at some moment.
SRTimeoutElapses ==
  /\ srPc = "loop"
  /\ srIn.timeout
  /\ ~srElapsed
  /\ srElapsed' = TRUE
  /\ UNCHANGED <<srIn, srPc, srIter, srResult, fcVars, ccVars, algVars, pfVars,
                 sjVars>>

\* The collection is complete: the set of the primes it holds is returned.
SRReturn ==
  /\ srPc = "loop"
  /\ FCIsComplete(factors)
  /\ srPc' = "returned"
  /\ srResult' = FCSet(factors)
  /\ UNCHANGED <<srIn, srIter, srElapsed, fcVars, ccVars, algVars,
                 pfVars, sjVars>>

\* The collection is not complete, and the iteration limit has been used
\* up or the timeout has elapsed: IncompleteFactorizationException is
\* raised, with the factors found so far.
SRRaise ==
  /\ srPc = "loop"
  /\ ~FCIsComplete(factors)
  /\ SRLimitReached(srIn.k, srIter) \/ srElapsed
  /\ srPc' = "raised"
  /\ srResult' = FCSet(factors)
  /\ UNCHANGED <<srIn, srIter, srElapsed, fcVars, ccVars, algVars,
                 pfVars, sjVars>>

\* A sample x on the range that is not coprime to N' is rejected; with
\* report_accidental_factors, gcd(x, N') is added to the collection.
SRAccidentalFactor ==
  /\ srPc = "loop"
  /\ ~FCIsComplete(factors)
  /\ ~SRLimitReached(srIn.k, srIter)
  /\ ~srElapsed
  /\ srIn.opt.report_accidental_factors
  /\ LET Np == SRNp(factors, srIn.N, srIn.opt.process_composite_factors)
     IN  \E x \in SRSampleRange(Np, srIn.opt.exclude_one) :
           /\ GCD(x, Np) # 1
           /\ factors' = FCAdd(factors, GCD(x, Np))
  /\ UNCHANGED <<srIn, srPc, srIter, srElapsed, srResult, fcN, ccVars,
                 algVars, pfVars, sjVars>>

\* One iteration: x is sampled from the multiplicative group modulo N',
\* and the factors that x^(2^i o) yields are added to the collection.
SRIterate ==
  /\ srPc = "loop"
  /\ ~FCIsComplete(factors)
  /\ ~SRLimitReached(srIn.k, srIter)
  /\ ~srElapsed
  /\ LET mode == srIn.opt.process_composite_factors
         Np == SRNp(factors, srIn.N, mode)
     IN  \E x \in SRSampleRange(Np, srIn.opt.exclude_one) :
           /\ GCD(x, Np) = 1
           /\ factors' = SRProcess(factors, x,
                                   SRExponent(srIn.r, srIn.N, srIn.c),
                                   Kappa(srIn.r),
                                   SRModuli(factors, srIn.N, mode),
                                   srIn.opt)
  /\ srIter' = IF srIter < MaxK THEN srIter + 1 ELSE srIter
  /\ UNCHANGED <<srIn, srPc, srElapsed, srResult, fcN, ccVars, algVars, pfVars,
                 sjVars>>

NextSR ==
  \/ SRStart
  \/ SRTimeoutElapses
  \/ SRReturn
  \/ SRRaise
  \/ SRAccidentalFactor
  \/ SRIterate

SpecSR == InitSR /\ [][NextSR]_vars

(***************************************************************************)
(* Calls of algorithm4.                                                    *)
(***************************************************************************)
\* The state at a call of algorithm4(g, S, m, c), for g an element of a
\* cyclic group of order less than 2^m and S a set of candidates.
InitA4 ==
  /\ SRIdle
  /\ CCIdle
  /\ FCIdle
  /\ AlgIdle
  /\ SJIdle
  /\ \E m \in 1..MaxM : \E c \in 1..MaxC :
     \E r \in 1..(2 ^ m - 1) : \E d \in 0..(r - 1) :
     \E S \in SUBSET (1..MaxA4) :
       pfIn = [fn |-> "algorithm4", g |-> GElement(r, d), S |-> S,
               m |-> m, c |-> c]
  /\ pfOut = NoReturn

Algorithm4Call ==
  /\ pfIn.fn = "algorithm4"
  /\ ~pfOut.done
  /\ pfOut' = [done |-> TRUE, error |-> FALSE,
               val |-> Algorithm4(pfIn.g, pfIn.S, pfIn.m, pfIn.c)]
  /\ UNCHANGED <<pfIn, ccVars, fcVars, algVars, sjVars, srVars>>

NextA4 == Algorithm4Call

SpecA4 == InitA4 /\ [][NextA4]_vars

(***************************************************************************)
(* Calls of continued_fractions.                                           *)
(***************************************************************************)
\* The state at a call of continued_fractions(j, m, l), for m positive and
\* l non-negative; j is on [0, 2^(m + l)), or just outside of it.
InitCF ==
  /\ SRIdle
  /\ CCIdle
  /\ FCIdle
  /\ AlgIdle
  /\ SJIdle
  /\ \E m \in 1..MaxCFML : \E l \in 0..(MaxCFML - m) :
     \E j \in (0 - 1)..(2 ^ (m + l)) :
       pfIn = [fn |-> "continued_fractions", j |-> j, m |-> m, l |-> l]
  /\ pfOut = NoReturn

\* continued_fractions returns the list of denominators, or fails on a j
\* that is not on [0, 2^(m + l)).
CFCall ==
  /\ pfIn.fn = "continued_fractions"
  /\ ~pfOut.done
  /\ pfOut' = IF pfIn.j < 0 \/ pfIn.j >= 2 ^ (pfIn.m + pfIn.l)
                THEN [done |-> TRUE, error |-> TRUE, val |-> << >>]
                ELSE [done |-> TRUE, error |-> FALSE,
                      val |-> ContinuedFractions(pfIn.j, pfIn.m, pfIn.l)]
  /\ UNCHANGED <<pfIn, ccVars, fcVars, algVars, sjVars, srVars>>

NextCF == CFCall

SpecCF == InitCF /\ [][NextCF]_vars

(***************************************************************************)
(* Claims about solve_j_for_r (under SpecSJ and SpecOrder).                *)
(***************************************************************************)
\* The optimal frequency j0(z) = round(2^(m + l) * z / r).
J0(z, r, m, l) == (2 * (2 ^ (m + l)) * z + r) \div (2 * r)

\* The scan has solved an optimal frequency j0(z), for a peak index z in
\* [0, r) such that d = gcd(r, z) is cm-smooth, with accept_multiple =
\* False and l as the continued-fractions method requires.
C1_Pre ==
  LET r == GOrder(sjIn.g)
  IN  /\ sjPc # "idle"
      /\ ~sjIn.accept_multiple
      /\ r * r < 2 ^ (sjIn.m + sjIn.l)
      /\ \E z \in 0..(r - 1) :
            /\ J0(z, r, sjIn.m, sjIn.l) \in sjVisited
            /\ IsBSmooth(GCD(r, z), sjIn.c * sjIn.m)

C2_ReturnsMultipleOfOrder ==
  /\ (algRes.alg \in {1, 2, 3} /\ algRes.val # None) =>
        /\ algRes.val > 0
        /\ GIsOne(GPow(algIn.g, algRes.val))
  /\ (sjPc = "returned" /\ sjResult # None) =>
        /\ sjResult > 0
        /\ GIsOne(GPow(sjIn.g, sjResult))

\* Witness of C2: algorithm1 has returned a value for an r_tilde that does
\* not divide the order r of g, so that r = d * r_tilde holds for no d.
C2_Witness ==
  /\ algRes.alg = 1
  /\ algRes.val # None
  /\ ~GIsOne(algIn.g)
  /\ GOrder(algIn.g) % algIn.r_tilde # 0

(***************************************************************************)
(* Claims about algorithm1, algorithm2 and algorithm3 (under SpecAlg).     *)
(***************************************************************************)
\* C3: for every non-identity g of order r < 2^m and every r_tilde such
\* that r = d * r_tilde with d cm-smooth (every prime power q^e exactly
\* dividing d is <= cm, the case q^e = cm included), algorithm1 returns a
\* positive multiple of r, and algorithm2 and algorithm3 return exactly r.
C3_Pre ==
  /\ ~GIsOne(algIn.g)
  /\ GOrder(algIn.g) % algIn.r_tilde = 0
  /\ IsBSmooth(GOrder(algIn.g) \div algIn.r_tilde, algIn.c * algIn.m)

C3_SmoothRecovery ==
  C3_Pre =>
    /\ algRes.alg = 1 =>
         (algRes.val > 0 /\ algRes.val % GOrder(algIn.g) = 0)
    /\ algRes.alg \in {2, 3} => algRes.val = GOrder(algIn.g)

\* Witness of C3: algorithm2 has returned r = 6 for r_tilde = 2 with m = 3
\* and c = 1, where the missing d = 3 is a prime power equal to cm itself.
C3_Witness ==
  /\ C3_Pre
  /\ algRes.alg = 2
  /\ algIn.m = 3 /\ algIn.c = 1
  /\ GOrder(algIn.g) = 6 /\ algIn.r_tilde = 2
  /\ algRes.val = 6

(***************************************************************************)
(* Claims about the CandidateCollection (checked under SpecCC).            *)
(***************************************************************************)
\* C9: after any finite sequence of add calls with positive integers,
\* starting from the empty collection, no stored candidate divides another
\* stored candidate: the stored set is an antichain under divisibility.
C9_Antichain ==
  \A s \in candidates : \A t \in candidates :
    s # t => ~Divides(s, t)

\* Witness of C9: an add has removed a stored multiple of the new candidate
\* (6 was added and is no longer stored) and two candidates remain stored.
C9_Witness ==
  /\ 6 \in ccAdded
  /\ 6 \notin candidates
  /\ 3 \in candidates
  /\ Cardinality(candidates) >= 2

\* C11: CandidateCollection.add(c) returns True if and only if the stored
\* set changed: when a stored element divides c (c itself being stored
\* included) it returns False and leaves the stored set unchanged;
\* otherwise it removes every stored element that c divides, inserts c, and
\* returns True.
C11_AddReturnsWhetherChanged ==
  [][LET c == ccArg'
     IN  /\ ccRet' <=> (candidates' # candidates)
         /\ (\E s \in candidates : Divides(s, c)) =>
               (~ccRet' /\ candidates' = candidates)
         /\ ~(\E s \in candidates : Divides(s, c)) =>
               /\ ccRet'
               /\ candidates' =
                    (candidates \ {s \in candidates : Divides(c, s)}) \cup {c}]_ccVars

\* Witness of C11: the last add returned False for a candidate that is not
\* stored itself, after an earlier add had removed stored multiples.
C11_Witness ==
  /\ ~ccRet
  /\ ccArg = 12
  /\ 12 \notin candidates
  /\ candidates = {2, 3}
  /\ {4, 9} \subseteq ccAdded

\* C10: for every positive integer c the membership test is True if and
\* only if some stored candidate divides c; hence the collection is closed
\* under multiplication by any positive integer k.
C10_Membership ==
  \A c \in 1..MaxCand :
    /\ CCContains(candidates, c) <=> (\E s \in candidates : Divides(s, c))
    /\ \A k \in 1..MaxMult :
         CCContains(candidates, c) => CCContains(candidates, k * c)

\* Witness of C10: a candidate that is not stored is in the collection as a
\* proper multiple of a stored one, while another candidate is not in it.
C10_Witness ==
  /\ candidates = {4, 6}
  /\ CCContains(candidates, 12)
  /\ ~CCContains(candidates, 3)

(***************************************************************************)
(* Claims about the FactorCollection (checked under SpecFC).               *)
(***************************************************************************)
\* The prime factorisation of n, as a bag of primes.
RECURSIVE PrimeFactorBag(_)
PrimeFactorBag(n) ==
  IF n = 1 THEN EmptyBag
  ELSE LET q == CHOOSE p \in 2..n :
                  /\ n % p = 0
                  /\ \A p2 \in 2..(p - 1) : n % p2 # 0
       IN  OneBag(q) (+) PrimeFactorBag(n \div q)

\* The factors held, with multiplicity, without their flags.
RECURSIVE FCValuesOver(_, _)
FCValuesOver(F, S) ==
  IF S = {} THEN EmptyBag
  ELSE LET e == CHOOSE x \in S : TRUE
       IN  BagTimes(OneBag(e.f), F[e]) (+) FCValuesOver(F, S \ {e})
FCValues(F) == FCValuesOver(F, DOMAIN F)

\* C6: in every state reachable from FactorCollection(N), N > 1, by add
\* calls, every factor held is an integer greater than 1 and the product of
\* the factors held, with multiplicity, is N.
C6_ProductIsN ==
  /\ \A e \in DOMAIN factors : e.f > 1
  /\ FCProduct(factors) = fcN

\* Witness of C6: FactorCollection(36) after add calls that split 36 into
\* four factors.
C6_Witness ==
  /\ fcN = 36
  /\ BagCardinality(factors) = 4

\* C7 as stated: any two composite factors of different value held in the
\* collection are coprime.
C7_CompositesCoprime ==
  \A e1 \in DOMAIN factors : \A e2 \in DOMAIN factors :
    (e1.f # e2.f /\ ~e1.prime /\ ~e2.prime) => GCD(e1.f, e2.f) = 1

\* C8: is_complete() is True if and only if every factor held is a prime,
\* that is, if and only if the factors held are the prime factors of N
\* (each prime as often as it divides N).
C8_CompleteIffAllPrimesFound ==
  FCIsComplete(factors) <=> (FCValues(factors) = PrimeFactorBag(fcN))

\* Witness of C8: the collection of a composite N with a repeated prime
\* factor has become complete by add calls.
C8_Witness ==
  /\ fcN = 12
  /\ FCIsComplete(factors)
  /\ BagCardinality(factors) = 3


(***************************************************************************)
(* Claims about solve_r_for_factors (under SpecSR).                        *)
(***************************************************************************)
\* The set of all distinct primes that divide n.
PrimeDivisors(n) == {q \in 2..n : IsPrime(q) /\ n % q = 0}

\* C4: whenever solve_r_for_factors returns, the set returned is exactly
\* the set of all distinct primes that divide N: every element is a prime
\* divisor of N and no prime divisor of N is missing, also when N has prime
\* factors with multiplicity.
C4_ReturnsAllPrimeFactors ==
  srPc = "returned" => srResult = PrimeDivisors(srIn.N)

\* Witness of C4: the solver has returned, after an iteration, for an N
\* that a square of a prime divides.
C4_Witness ==
  /\ srPc = "returned"
  /\ srIter > 0
  /\ \E q \in 2..srIn.N : IsPrime(q) /\ srIn.N % (q * q) = 0
  /\ Cardinality(srResult) = 2

\* An iteration limit k was given and has been used up, or a timeout was
\* given and has elapsed.
SRExhausted ==
  \/ srIn.k # None /\ srIter >= srIn.k
  \/ srIn.timeout /\ srElapsed

\* C5: solve_r_for_factors raises IncompleteFactorizationException, with
\* the factors collected so far, only when the collection is incomplete and
\* an iteration limit k that was given has been used up or a timeout that
\* was given has elapsed; it never raises it with k = None and timeout =
\* None; and when the collection is incomplete and k has been used up or
\* the timeout has elapsed, the only step the solver takes is to raise it.
C5_RaisesExactlyWhenExhausted ==
  /\ [](/\ srPc = "raised" =>
             /\ ~FCIsComplete(factors)
             /\ srResult = FCSet(factors)
             /\ SRExhausted
        /\ (srIn.k = None /\ ~srIn.timeout) => srPc # "raised")
  /\ [][(srPc = "loop" /\ ~FCIsComplete(factors) /\ SRExhausted) =>
          (srPc' = "raised" \/ srElapsed' # srElapsed)]_vars

\* Witness of C5: the exception has been raised with no timeout given, the
\* one iteration that k = 1 allows having been performed, and carries a
\* proper factor of N.
C5_Witness ==
  /\ srPc = "raised"
  /\ ~srIn.timeout
  /\ srIn.k = 1
  /\ srIter = 1
  /\ srResult # {srIn.N}


(***************************************************************************)
(* Claims about continued_fractions (under SpecCF).                        *)
(***************************************************************************)
Abs(x) == IF x < 0 THEN 0 - x ELSE x

\* p / q, in lowest terms and with p positive, is a convergent of j / N:
\* a best approximation of the second kind, |q j / N - p| being less than
\* |q' j / N - p'| for every other p' / q' with q' <= q. The convergent
\* 0 / 1 of the integer part of j / N < 1 is the one with p = 0.
IsConvergent(p, q, j, N) ==
  /\ GCD(p, q) = 1
  /\ \A qq \in 1..q : \A pp \in 0..qq :
       <<pp, qq>> # <<p, q>> => Abs(qq * j - pp * N) > Abs(q * j - p * N)

\* The denominators q with q^2 < N of the convergents of j / N that follow
\* the convergent 0 / 1.
ConvergentDenominators(j, N) ==
  {q \in 1..N : q * q < N /\ \E p \in 1..q : IsConvergent(p, q, j, N)}

C17_ZeroGivesEmptyList ==
  (pfIn.fn = "continued_fractions" /\ pfIn.j = 0 /\ pfOut.done) =>
    (~pfOut.error /\ pfOut.val = << >>)

\* Witness of C17: continued_fractions(0, 3, 0) has returned.
C17_Witness ==
  /\ pfIn = [fn |-> "continued_fractions", j |-> 0, m |-> 3, l |-> 0]
  /\ pfOut.done
  /\ ~pfOut.error


SmoothnessAssumption ==
  /\ GOrder(algIn.g) % algIn.r_tilde = 0
  /\ IsBSmooth(GOrder(algIn.g) \div algIn.r_tilde, algIn.c * algIn.m)

\* d * r_tilde is a positive multiple of r for some cm-smooth d (if a d
\* does, so does gcd(d, r), which is cm-smooth with d and at most r).
SmoothMultiple ==
  \E d \in 1..GOrder(algIn.g) :
    /\ IsBSmooth(d, algIn.c * algIn.m)
    /\ (d * algIn.r_tilde) % GOrder(algIn.g) = 0

C19_Algorithm4Subset ==
  (pfIn.fn = "algorithm4" /\ pfOut.done) =>
    LET r == GOrder(pfIn.g)
        B == pfIn.c * pfIn.m
    IN  /\ pfOut.val =
             {r_tilde \in pfIn.S : (r_tilde * PrimePowerProduct(B)) % r = 0}
        /\ pfOut.val =
             {r_tilde \in pfIn.S :
                \E d \in 1..r : IsBSmooth(d, B) /\ (d * r_tilde) % r = 0}

\* Witness of C19: for g of order 8, m = 4 and c = 1 (P = 12), algorithm4
\* has kept the candidates 2 and 6 of S = {2, 3, 5, 6} and dropped 3 and 5.
C19_Witness ==
  /\ pfIn.fn = "algorithm4"
  /\ GOrder(pfIn.g) = 8
  /\ pfIn.m = 4
  /\ pfIn.c = 1
  /\ pfIn.S = {2, 3, 5, 6}
  /\ pfOut.done
  /\ pfOut.val = {2, 6}


(***************************************************************************)
(* Vectors and matrices of integers.                                       *)
(***************************************************************************)
RECURSIVE SeqSum(_)
SeqSum(s) == IF s = << >> THEN 0 ELSE Head(s) + SeqSum(Tail(s))

\* Row vectors are tuples and a matrix is the tuple of its rows; Tup(f) is
\* the tuple of the values of f on 1..Len(f).
Tup(f) == SubSeq(f, 1, Len(f))

Dot(u, v) == SeqSum([i \in 1..Len(u) |-> u[i] * v[i]])

Norm2(u) == Dot(u, u)

\* u - q v.
SubMul(u, q, v) == Tup([i \in 1..Len(u) |-> u[i] - q * v[i]])

RECURSIVE Det(_)
\* The determinant of a square matrix, expanded along its first row.
Det(A) ==
  IF Len(A) = 1
    THEN A[1][1]
    ELSE LET n == Len(A)
             Minor(j) ==
               Tup([i \in 1..(n - 1) |->
                      Tup([k \in 1..(n - 1) |->
                             A[i + 1][IF k < j THEN k ELSE k + 1]])])
         IN  SeqSum([j \in 1..n |->
                       (IF j % 2 = 1 THEN 1 ELSE 0 - 1) * A[1][j]
                         * Det(Minor(j))])

\* The rows of U A are the combinations of the rows of A that the rows of U
\* give.
MatMul(U, A) ==
  Tup([i \in 1..Len(U) |->
         Tup([k \in 1..Len(A[1]) |->
                SeqSum([j \in 1..Len(A) |-> U[i][j] * A[j][k]])])])

Identity == <<<<1, 0>>, <<0, 1>>>>

\* The 2 x 2 integer matrices with entries of absolute value at most n.
Matrices(n) ==
  {<<<<a, b>>, <<c, d>>>> : a \in (0 - n)..n, b \in (0 - n)..n,
                          c \in (0 - n)..n, d \in (0 - n)..n}

FullRank(n) == {A \in Matrices(n) : Det(A) # 0}

\* The integer nearest to n / d for d positive, the halves rounded away
\* from zero.
Round(n, d) ==
  IF n >= 0 THEN (2 * n + d) \div (2 * d)
            ELSE 0 - ((d - 2 * n) \div (2 * d))

\* n / d rounded towards minus infinity.
RoundDown(n, d) == n \div d

\* solve_left(B, o): the integer vector c with c B = o for B square and of
\* full rank, when there is one; c[i] is the determinant of B with o in the
\* place of row i, over the determinant of B.
SolveLeftExists(B, o) ==
  \A i \in 1..Len(B) : Det([B EXCEPT ![i] = o]) % Abs(Det(B)) = 0

\* The rows of A and of B generate the same lattice.
SameLattice(A, B) ==
  /\ \A i \in 1..Len(B) : SolveLeftExists(A, B[i])
  /\ \A i \in 1..Len(A) : SolveLeftExists(B, A[i])

(***************************************************************************)
(* Lagrange reduction.                                                     *)
(***************************************************************************)
\* is_lagrange_reduced(A): |b1| <= |b2| and |<b1, b2>| <= |b1|^2 / 2.
IsLagrangeReduced(A) ==
  /\ Norm2(A[1]) <= Norm2(A[2])
  /\ 2 * Abs(Dot(A[1], A[2])) <= Norm2(A[1])

RECURSIVE LagrangeReduceRoundingDown(_, _, _, _)
\* The reduction with the multiple rounded down.
LagrangeReduceRoundingDown(u, v, m_u, m_v) ==
  IF Norm2(u) > Norm2(v)
    THEN LagrangeReduceRoundingDown(v, u, m_v, m_u)
    ELSE LET q == RoundDown(Dot(u, v), Norm2(u))
             r == SubMul(v, q, u)
             m_r == SubMul(m_v, q, m_u)
         IN  IF Norm2(r) < Norm2(u)
               THEN LagrangeReduceRoundingDown(r, u, m_r, m_u)
               ELSE <<<<u, r>>, <<m_u, m_r>>>>

RECURSIVE LagrangeReduce(_, _, _, _)
\* The reduction of the rows u and v, of which m_u and m_v are the
\* multiples: from the longer row the nearest integer multiple of the
\* shorter is subtracted, and the two are swapped for as long as that
\* leaves the longer row strictly shorter than the shorter one.
LagrangeReduce(u, v, m_u, m_v) ==
  IF Norm2(u) > Norm2(v)
    THEN LagrangeReduce(v, u, m_v, m_u)
    ELSE LET q == Round(Dot(u, v), Norm2(u))
             r == SubMul(v, q, u)
             m_r == SubMul(m_v, q, m_u)
         IN  IF Norm2(r) < Norm2(u)
               THEN LagrangeReduce(r, u, m_r, m_u)
               ELSE <<<<u, r>>, <<m_u, m_r>>>>

\* No row multiples given.
NoMultiples == << >>

\* lagrange(A, multiples): the reduction starts at multiples A when row
\* multiples are given and at A when none are.
Lagrange(A, multiples) ==
  LET M == IF multiples = NoMultiples THEN Identity ELSE multiples
      S == MatMul(M, A)
  IN  LagrangeReduce(S[1], S[2], M[1], M[2])

\* The state at a call of lagrange(A), for A of full rank.
InitLag ==
  /\ SRIdle
  /\ CCIdle
  /\ FCIdle
  /\ AlgIdle
  /\ SJIdle
  /\ \E A \in FullRank(MaxLag) :
       pfIn = [fn |-> "lagrange", A |-> A, multiples |-> NoMultiples]
  /\ pfOut = NoReturn

\* The state at a call of lagrange(A, multiples), for A and the matrix of
\* the row multiples of full rank.
InitLagM ==
  /\ SRIdle
  /\ CCIdle
  /\ FCIdle
  /\ AlgIdle
  /\ SJIdle
  /\ \E A \in FullRank(MaxLagA) : \E M \in FullRank(MaxLagM) :
       pfIn = [fn |-> "lagrange", A |-> A, multiples |-> M]
  /\ pfOut = NoReturn

LagrangeCall ==
  /\ pfIn.fn = "lagrange"
  /\ ~pfOut.done
  /\ pfOut' = [done |-> TRUE, error |-> FALSE,
               val |-> Lagrange(pfIn.A, pfIn.multiples)]
  /\ UNCHANGED <<pfIn, ccVars, fcVars, algVars, sjVars, srVars>>

NextLag == LagrangeCall

SpecLag == InitLag /\ [][NextLag]_vars

SpecLagM == InitLagM /\ [][NextLag]_vars

(***************************************************************************)
(* Claims about lagrange (under SpecLag and SpecLagM).                     *)
(***************************************************************************)
LagReturned == pfIn.fn = "lagrange" /\ pfOut.done /\ ~pfOut.error

\* C13: for every 2 x 2 integer basis A of full rank, lagrange(A) without
\* row multiples returns [A', U] with A' Lagrange-reduced, A' = U A and
\* det(U) = 1 or -1, and A' generates the lattice that A generates.
C13_LagrangeReduces ==
  (LagReturned /\ pfIn.multiples = NoMultiples) =>
     /\ IsLagrangeReduced(pfOut.val[1])
     /\ pfOut.val[1] = MatMul(pfOut.val[2], pfIn.A)
     /\ Det(pfOut.val[2]) \in {1, 0 - 1}
     /\ SameLattice(pfOut.val[1], pfIn.A)

\* lagrange([[3, 2], [2, 1]]) takes several rounds and returns the basis
\* [[0, 1], [-1, 0]].
C13_Witness ==
  /\ LagReturned
  /\ pfIn.multiples = NoMultiples
  /\ pfIn.A = <<<<3, 2>>, <<2, 1>>>>
  /\ ~IsLagrangeReduced(pfIn.A)
  /\ pfOut.val[2] # Identity

\* C14: for every 2 x 2 integer basis A of full rank and every integer
\* matrix of row multiples of full rank, lagrange(A, multiples) returns
\* [A', multiples'] with A' a Lagrange-reduced basis of the lattice that A
\* generates and A' = multiples' A.
C14_LagrangeWithMultiples ==
  (LagReturned /\ pfIn.multiples # NoMultiples) =>
     /\ IsLagrangeReduced(pfOut.val[1])
     /\ pfOut.val[1] = MatMul(pfOut.val[2], pfIn.A)
     /\ SameLattice(pfOut.val[1], pfIn.A)

(***************************************************************************)
(* Exact rationals and Gram-Schmidt orthogonalization.                     *)
(***************************************************************************)
\* The rational n / d as the pair of its numerator and its positive
\* denominator in lowest terms.
Q(n, d) ==
  LET g == GCD(Abs(n), Abs(d))
  IN  <<((IF d < 0 THEN 0 - n ELSE n) \div g), Abs(d) \div g>>

QAdd(a, b) == Q(a[1] * b[2] + b[1] * a[2], a[2] * b[2])

QSub(a, b) == Q(a[1] * b[2] - b[1] * a[2], a[2] * b[2])

QMul(a, b) == Q(a[1] * b[1], a[2] * b[2])

QDiv(a, b) == Q(a[1] * b[2], a[2] * b[1])

QLeq(a, b) == a[1] * b[2] <= b[1] * a[2]

RECURSIVE QSum(_)
QSum(s) == IF s = << >> THEN <<0, 1>> ELSE QAdd(Head(s), QSum(Tail(s)))

QDot(u, v) == QSum([i \in 1..Len(u) |-> QMul(u[i], v[i])])

RECURSIVE GramSchmidtRows(_, _)
\* The first i rows of Bs and of M.
GramSchmidtRows(B, i) ==
  IF i = 0
    THEN <<<< >>, << >>>>
    ELSE LET prev == GramSchmidtRows(B, i - 1)
             Bs == prev[1]
             b == Tup([k \in 1..Len(B[i]) |-> <<B[i][k], 1>>])
             mu == Tup([j \in 1..Len(B) |->
                          IF j < i
                            THEN QDiv(QDot(b, Bs[j]), QDot(Bs[j], Bs[j]))
                            ELSE IF j = i THEN <<1, 1>> ELSE <<0, 1>>])
             bs == Tup([k \in 1..Len(B[i]) |->
                          QSub(b[k], QSum([j \in 1..(i - 1) |->
                                             QMul(mu[j], Bs[j][k])]))])
         IN  <<Append(Bs, bs), Append(prev[2], mu)>>

\* gram_schmidt(B): [Bs, M] with exact quotients, B = M Bs.
GramSchmidt(B) == GramSchmidtRows(B, Len(B))

(***************************************************************************)
(* LLL reduction.                                                          *)
(***************************************************************************)
\* The Lovasz condition on the rows k - 1 and k:
\* |b*_k|^2 >= (delta - mu_{k, k - 1}^2) |b*_{k - 1}|^2.
Lovasz(gs, k, delta) ==
  QLeq(QMul(QSub(delta, QMul(gs[2][k][k - 1], gs[2][k][k - 1])),
            QDot(gs[1][k - 1], gs[1][k - 1])),
       QDot(gs[1][k], gs[1][k]))

\* is_lll_reduced(B, delta): every projection factor below the diagonal is
\* at most 1 / 2 in absolute value and the Lovasz condition holds for every
\* two rows that follow each other.
IsLllReduced(B, delta) ==
  LET gs == GramSchmidt(B)
  IN  /\ \A i \in 1..Len(B) : \A j \in 1..(i - 1) :
           2 * Abs(gs[2][i][j][1]) <= gs[2][i][j][2]
      /\ \A k \in 2..Len(B) : Lovasz(gs, k, delta)

\* Row k less the nearest integer multiple of row j.
SizeReduce(B, k, j) ==
  LET mu == GramSchmidt(B)[2][k][j]
  IN  [B EXCEPT ![k] = SubMul(B[k], Round(mu[1], mu[2]), B[j])]

RECURSIVE SizeReduceFrom(_, _, _)
\* Row k size-reduced against the rows j down to 1.
SizeReduceFrom(B, k, j) ==
  IF j < 1 THEN B ELSE SizeReduceFrom(SizeReduce(B, k, j), k, j - 1)

RECURSIVE LllLoopLeavingRowsBelow(_, _, _)
\* The loop without the size reduction against the rows below k - 1.
LllLoopLeavingRowsBelow(B, k, delta) ==
  IF k > Len(B)
    THEN B
    ELSE LET R == SizeReduce(B, k, k - 1)
         IN  IF Lovasz(GramSchmidt(R), k, delta)
               THEN LllLoopLeavingRowsBelow(R, k + 1, delta)
               ELSE LllLoopLeavingRowsBelow(
                      [R EXCEPT ![k - 1] = R[k], ![k] = R[k - 1]],
                      IF k > 2 THEN k - 1 ELSE 2, delta)

RECURSIVE LllLoop(_, _, _)
\* The loop of lll at row k: row k is size-reduced against row k - 1; when
\* the Lovasz condition fails the two rows are swapped and k steps back,
\* not below 2; when it holds row k is size-reduced against the rows
\* k - 2 down to 1 and k advances.
LllLoop(B, k, delta) ==
  IF k > Len(B)
    THEN B
    ELSE LET R == SizeReduce(B, k, k - 1)
         IN  IF Lovasz(GramSchmidt(R), k, delta)
               THEN LllLoop(SizeReduceFrom(R, k, k - 2), k + 1, delta)
               ELSE LllLoop([R EXCEPT ![k - 1] = R[k], ![k] = R[k - 1]],
                            IF k > 2 THEN k - 1 ELSE 2, delta)

\* lll(A, delta) with exact projection factors and no timeout.
Lll(A, delta) == LllLoop(A, 2, delta)

\* Values of delta on (1 / 4, 1], the default 0.99 among them.
Deltas == {<<1, 3>>, <<3, 4>>, <<99, 100>>, <<1, 1>>}

\* The bases of the lattices of the solvers for several frequencies, with
\* the rows (j_1, 2^tau, 0), (j_2, 0, 2^tau) and (2^(m + l), 0, 0).
FrequencyBases ==
  UNION {{<<<<j1, 2 ^ tau, 0>>, <<j2, 0, 2 ^ tau>>, <<2 ^ ml, 0, 0>>>> :
            j1 \in 0..(2 ^ ml - 1), j2 \in 0..(2 ^ ml - 1),
            tau \in 0..MaxTau} : ml \in 1..MaxLllML}

\* The basis of the documented example of an LLL reduction.
ExampleBasis == <<<<1, 1, 1>>, <<0 - 1, 0, 2>>, <<3, 5, 6>>>>

\* The bases lll is called with: the 2 x 2 bases of small entries, the
\* bases of the solvers and the basis of the example.
LllBases == FullRank(MaxLll) \cup FrequencyBases \cup {ExampleBasis}

\* The state at a call of lll(A, delta), for A of full rank.
InitLll ==
  /\ SRIdle
  /\ CCIdle
  /\ FCIdle
  /\ AlgIdle
  /\ SJIdle
  /\ \E A \in LllBases : \E delta \in Deltas :
       pfIn = [fn |-> "lll", A |-> A, delta |-> delta]
  /\ pfOut = NoReturn

LllCall ==
  /\ pfIn.fn = "lll"
  /\ ~pfOut.done
  /\ pfOut' = [done |-> TRUE, error |-> FALSE,
               val |-> Lll(pfIn.A, pfIn.delta)]
  /\ UNCHANGED <<pfIn, ccVars, fcVars, algVars, sjVars, srVars>>

NextLll == LllCall

SpecLll == InitLll /\ [][NextLll]_vars

(***************************************************************************)
(* Claims about lll (under SpecLll).                                       *)
(***************************************************************************)
\* C12: for every integer basis A of full rank and every delta on
\* (1 / 4, 1], lll(A, delta) returns a basis B that is_lll_reduced(B, delta)
\* accepts and whose rows generate the lattice that the rows of A generate.
C12_LllReduces ==
  (pfIn.fn = "lll" /\ pfOut.done) =>
     /\ IsLllReduced(pfOut.val, pfIn.delta)
     /\ SameLattice(pfOut.val, pfIn.A)

\* lll of the basis [[1, 1, 1], [-1, 0, 2], [3, 5, 6]] with delta = 0.99,
\* which is not reduced, returns another basis.
C12_Witness ==
  /\ pfIn.fn = "lll"
  /\ pfOut.done
  /\ pfIn.A = ExampleBasis
  /\ pfIn.delta = <<99, 100>>
  /\ ~IsLllReduced(pfIn.A, pfIn.delta)
  /\ pfOut.val # pfIn.A

(***************************************************************************)
(* Babai's nearest plane algorithm, enumeration and solve_cvp.             *)
(***************************************************************************)
\* The integer vector v as a vector of rationals.
QVec(v) == Tup([k \in 1..Len(v) |-> <<v[k], 1>>])

\* |v - t|^2.
Dist2(v, t) == Norm2(SubMul(v, 1, t))

RECURSIVE BabaiFrom(_, _, _, _)
\* The rows i down to 1 of Babai's algorithm: from what is left of the
\* target, round(<current, b_i*> / |b_i*|^2) b_i is subtracted.
BabaiFrom(B, Bs, current, i) ==
  IF i = 0
    THEN current
    ELSE LET c == QDiv(QDot(QVec(current), Bs[i]), QDot(Bs[i], Bs[i]))
         IN  BabaiFrom(B, Bs, SubMul(current, Round(c[1], c[2]), B[i]),
                       i - 1)

\* babai(B, t): the target less what is left of it.
Babai(B, t) ==
  SubMul(t, 1, BabaiFrom(B, GramSchmidt(B)[1], t, Len(B)))

RECURSIVE SqrtUp(_, _)
\* The least integer k >= k0 with k^2 >= q, for a rational q.
SqrtUp(q, k0) == IF QLeq(q, <<k0 * k0, 1>>) THEN k0 ELSE SqrtUp(q, k0 + 1)

RECURSIVE EnumerateFrom(_, _, _, _, _, _)
\* The levels i down to 1 of the enumeration tree: acc is the combination
\* of the rows above i chosen so far and rest is what they leave of the
\* squared radius; the coordinate x of row i ranges over the integers with
\* (x - c_i)^2 |b_i*|^2 <= rest.
EnumerateFrom(B, Bs, centre, i, acc, rest) ==
  IF i = 0
    THEN {acc}
    ELSE LET n2 == QDot(Bs[i], Bs[i])
             c == QDiv(QDot(QVec(SubMul(centre, 1, acc)), Bs[i]), n2)
             R == SqrtUp(QDiv(rest, n2), 0)
             Cost(x) ==
               QMul(QMul(QSub(<<x, 1>>, c), QSub(<<x, 1>>, c)), n2)
             X == {x \in (Round(c[1], c[2]) - R)..(Round(c[1], c[2]) + R) :
                     QLeq(Cost(x), rest)}
         IN  UNION {EnumerateFrom(B, Bs, centre, i - 1,
                                  SubMul(acc, 0 - x, B[i]),
                                  QSub(rest, Cost(x))) : x \in X}

\* enumerate(B, centre, radius): the lattice vectors v with
\* |v - centre|^2 <= radius2.
Enumerate(B, centre, radius2) ==
  EnumerateFrom(B, GramSchmidt(B)[1], centre, Len(B),
                Tup([k \in 1..Len(centre) |-> 0]), <<radius2, 1>>)

\* Babai's estimate alone.
SolveCvpBabai(B, t) == {Babai(B, t)}

\* solve_cvp(B, t): the vectors of least distance to t among those that
\* the enumeration within the distance of Babai's estimate finds; which of
\* them is returned when there are several is not stated.
SolveCvp(B, t) ==
  LET E == Enumerate(B, t, Dist2(Babai(B, t), t))
  IN  {v \in E : \A w \in E : Dist2(v, t) <= Dist2(w, t)}

\* The delta-LLL-reduced bases solve_cvp is called with: the reduced ones
\* among the 2 x 2 bases of small entries, and the reduced bases of the
\* lattice of the example.
CvpBases ==
  {B \in FullRank(MaxCvp) \cup {Lll(ExampleBasis, delta) : delta \in Deltas} :
     \E delta \in Deltas : IsLllReduced(B, delta)}

\* The integer targets with entries of absolute value at most MaxT.
Targets(d) == [1..d -> (0 - MaxT)..MaxT]

\* The state at a call of solve_cvp(B, t).
InitCvp ==
  /\ SRIdle
  /\ CCIdle
  /\ FCIdle
  /\ AlgIdle
  /\ SJIdle
  /\ \E B \in CvpBases : \E t \in Targets(Len(B)) :
       pfIn = [fn |-> "solve_cvp", B |-> B, t |-> t]
  /\ pfOut = NoReturn

SolveCvpCall ==
  /\ pfIn.fn = "solve_cvp"
  /\ ~pfOut.done
  /\ \E v \in SolveCvp(pfIn.B, pfIn.t) :
       pfOut' = [done |-> TRUE, error |-> FALSE, val |-> v]
  /\ UNCHANGED <<pfIn, ccVars, fcVars, algVars, sjVars, srVars>>

NextCvp == SolveCvpCall

SpecCvp == InitCvp /\ [][NextCvp]_vars

(***************************************************************************)
(* Claims about solve_cvp (under SpecCvp).                                 *)
(***************************************************************************)
\* The lattice vectors c B with coordinates c of absolute value at most
\* MaxCoef.
LatticeVectors(B) ==
  {MatMul(<<c>>, B)[1] : c \in [1..Len(B) -> (0 - MaxCoef)..MaxCoef]}

\* C15: for every delta-LLL-reduced square integer basis B of full rank and
\* every target t, solve_cvp(B, t) returns a lattice vector v that is
\* strictly nearer to t than every other lattice vector w.
C15_StrictMinimiser ==
  (pfIn.fn = "solve_cvp" /\ pfOut.done) =>
     /\ SolveLeftExists(pfIn.B, pfOut.val)
     /\ \A w \in LatticeVectors(pfIn.B) \ {pfOut.val} :
          Dist2(pfOut.val, pfIn.t) < Dist2(w, pfIn.t)

\* C15, amended: solve_cvp(B, t) returns a lattice vector v that is a
\* closest one, no lattice vector w being nearer to t than v.
C15_ClosestVector ==
  (pfIn.fn = "solve_cvp" /\ pfOut.done) =>
     /\ SolveLeftExists(pfIn.B, pfOut.val)
     /\ \A w \in LatticeVectors(pfIn.B) :
          Dist2(pfOut.val, pfIn.t) <= Dist2(w, pfIn.t)

\* solve_cvp([[1, 1], [-1, 1]], [1, 0]) has returned [1, 1], which is as
\* far from the target as [0, 0].
C15_Witness ==
  /\ pfIn.fn = "solve_cvp"
  /\ pfOut.done
  /\ pfIn.B = <<<<1, 1>>, <<0 - 1, 1>>>>
  /\ pfIn.t = <<1, 0>>
  /\ pfOut.val = <<1, 1>>
  /\ Dist2(<<0, 0>>, pfIn.t) = Dist2(pfOut.val, pfIn.t)

(***************************************************************************)
(* Further claims about the CandidateCollection (under SpecCC) and about   *)
(* the scan of solve_j_for_r (under SpecSJ).                               *)
(***************************************************************************)
\* The elements of S that no other element of S divides.
MinimalElements(S) == {s \in S : \A t \in S : t # s => ~Divides(t, s)}

\* C29: the stored set of a CandidateCollection equals the set of the
\* divisibility-minimal elements among all the candidates added so far,
\* whatever the order of the add calls and however often they are repeated.
C29_MinimalOfAdded == candidates = MinimalElements(ccAdded)

\* 4, 6, 2 and 3 have been added, 6 last: 2 and 3 are stored.
C29_Witness ==
  /\ ccAdded = {2, 3, 4, 6}
  /\ ccArg = 6
  /\ candidates = {2, 3}

RECURSIVE OffsetSequence(_)
\* The offsets 0, +1, -1, .., +B, -B in the order of the scan.
OffsetSequence(B) ==
  IF B = 0 THEN <<0>> ELSE OffsetSequence(B - 1) \o <<B, 0 - B>>

\* The scan has ended without accept_multiple or the peak isolation rule
\* having ended it.
ScanExhausted ==
  /\ sjPc = "returned"
  /\ ~(sjIn.accept_multiple /\ sjResult # None)
  /\ ~PeakIsolated

\* C25: solve_j_for_r solves the frequencies j + offset in the order
\* offset = 0, +1, -1, .., +B, -B, each once, and at most 2 B + 1 of them;
\* when neither accept_multiple nor the peak isolation ends the scan, all
\* of them have been solved when it returns.
C25_ScanOrder ==
  /\ [](Cardinality(sjVisited) <= 2 * sjIn.B + 1)
  /\ [](ScanExhausted =>
          sjVisited = {sjIn.j + o : o \in (0 - sjIn.B)..sjIn.B})
  /\ [][(sjVisited' # sjVisited \/ sjIdx' # sjIdx) =>
          LET n == Cardinality(sjVisited)
          IN  /\ n < 2 * sjIn.B + 1
              /\ sjVisited' =
                   sjVisited \cup {sjIn.j + OffsetSequence(sjIn.B)[n + 1]}
              /\ Cardinality(sjVisited') = n + 1]_vars

\* A scan with B = 2 has returned after all five offsets.
C25_Witness ==
  /\ ScanExhausted
  /\ sjIn.B = 2
  /\ ~sjIn.accept_multiple
  /\ sjIn.opt_isolate_peak
  /\ sjResult # None
  /\ Cardinality(sjVisited) = 5

\* The r found by the scan so far: those that the candidates added to the
\* collection gave.
RFound == {ProcessRTilde(r_tilde) : r_tilde \in ccAdded}

\* C26: with opt_isolate_peak = True and accept_multiple = False,
\* solve_j_for_r returns before all the offsets up to B are solved only
\* when an r with g^r = 1 has been found and an offset on each side of the
\* offset that gave the best r has failed to give one; it then returns the
\* minimum r found with g^r = 1.
C26_PeakIsolation ==
  (/\ sjPc = "returned"
   /\ ~sjIn.accept_multiple
   /\ Cardinality(sjVisited) < 2 * sjIn.B + 1) =>
     /\ sjIn.opt_isolate_peak
     /\ sjResult # None
     /\ GIsOne(GPow(sjIn.g, sjResult))
     /\ sjResult \in RFound
     /\ \A r \in RFound : sjResult <= r
     /\ \E f \in sjFailed : f < sjBest.off
     /\ \E f \in sjFailed : f > sjBest.off
     /\ sjFailed \cap {sjBest.off} = {}

\* A scan with B = 2 has returned after three offsets, the offsets +1 and
\* -1 having failed around the offset 0.
C26_Witness ==
  /\ sjPc = "returned"
  /\ ~sjIn.accept_multiple
  /\ sjIn.B = 2
  /\ Cardinality(sjVisited) = 3
  /\ sjBest.off = 0
  /\ sjFailed = {1, 0 - 1}

\* C30: for every j on [0, 2^(m + l)) every frequency that solve_j_for_r
\* solves is on [0, 2^(m + l)), and the scan does not fail with a domain
\* error.
C30_NoDomainError ==
  /\ sjPc # "domain_error"
  /\ \A f \in sjVisited : f >= 0 /\ f < 2 ^ (sjIn.m + sjIn.l)

(***************************************************************************)
(* solve_r_for_factors without an iteration limit and without a timeout,   *)
(* under a fair sampler.                                                   *)
(***************************************************************************)
\* The state at the call of solve_r_for_factors with k = None,
\* timeout = None and the default options.
InitSRNoLimit ==
  /\ PFIdle
  /\ CCIdle
  /\ FCIdle
  /\ AlgIdle
  /\ SJIdle
  /\ \E N \in 2..MaxSRN : \E g \in 1..(N - 1) : \E mult \in {1, 2} :
     \E c \in 1..MaxC :
       /\ GCD(g, N) = 1
       /\ srIn = [r |-> MultiplicativeOrder(g, N) * mult, N |-> N, c |-> c,
                  k |-> None, timeout |-> FALSE, opt |-> SRDefaults]
  /\ srPc = "start"
  /\ srIter = 0
  /\ srElapsed = FALSE
  /\ srResult = {}

NextSRNoLimit ==
  \/ SRStart
  \/ SRReturn
  \/ SRAccidentalFactor
  \/ SRIterate

\* The sampler is fair: for as long as x is sampled from a range that holds
\* an x that has a factor in common with N', such an x comes at some time;
\* the solver itself goes on for as long as it can.
SpecSRFair ==
  /\ InitSRNoLimit
  /\ [][NextSRNoLimit]_vars
  /\ WF_vars(SRStart)
  /\ WF_vars(SRReturn)
  /\ WF_vars(SRAccidentalFactor)

\* The call solve_r_for_factors(4, 15) with the default options.
SRFactoring15 ==
  srIn = [r |-> 4, N |-> 15, c |-> 1, k |-> None, timeout |-> FALSE,
          opt |-> SRDefaults]

TimeoutCheckRaisesLate(t) == t.elapsed /\ t.now > t.timeout

\* Timeout.check: raises a TimeoutError if the timeout is elapsed.
TimeoutCheckRaises(t) == t.timeout # None /\ t.elapsed

\* Timeout.is_elapsed: True if the timeout is elapsed, False otherwise.
TimeoutIsElapsed(t) == t.elapsed

\* Timeout.parse(timeout), for None or a number of seconds from now.
InitTO ==
  /\ SRIdle
  /\ CCIdle
  /\ FCIdle
  /\ AlgIdle
  /\ SJIdle
  /\ \E seconds \in {None} \cup 0..MaxSeconds :
       pfIn = [fn |-> "Timeout", timeout |-> seconds, now |-> 0,
               elapsed |-> FALSE]
  /\ pfOut = NoReturn

\* A second goes by; the clock does not leave the deadline behind before
\* the timeout is elapsed.
TimeoutTick ==
  /\ pfIn.fn = "Timeout"
  /\ pfIn.now < MaxNow
  /\ pfIn.timeout = None \/ pfIn.now < pfIn.timeout \/ pfIn.elapsed
  /\ pfIn' = [pfIn EXCEPT !.now = pfIn.now + 1]
  /\ UNCHANGED <<pfOut, ccVars, fcVars, algVars, sjVars, srVars>>

\* The deadline is reached: the timeout is elapsed from now on.
TimeoutElapses ==
  /\ pfIn.fn = "Timeout"
  /\ pfIn.timeout # None
  /\ pfIn.now >= pfIn.timeout
  /\ ~pfIn.elapsed
  /\ pfIn' = [pfIn EXCEPT !.elapsed = TRUE]
  /\ UNCHANGED <<pfOut, ccVars, fcVars, algVars, sjVars, srVars>>

\* A call of check(): pfOut holds the method, whether it raised and the
\* second of the call.
TimeoutCheckCall ==
  /\ pfIn.fn = "Timeout"
  /\ pfOut' = [done |-> TRUE, error |-> TimeoutCheckRaises(pfIn),
               val |-> <<"check", pfIn.now>>]
  /\ UNCHANGED <<pfIn, ccVars, fcVars, algVars, sjVars, srVars>>

\* A call of is_elapsed(): pfOut holds the method, the second of the call
\* and the value returned.
TimeoutIsElapsedCall ==
  /\ pfIn.fn = "Timeout"
  /\ pfOut' = [done |-> TRUE, error |-> FALSE,
               val |-> <<"is_elapsed", pfIn.now, TimeoutIsElapsed(pfIn)>>]
  /\ UNCHANGED <<pfIn, ccVars, fcVars, algVars, sjVars, srVars>>

NextTO ==
  \/ TimeoutTick
  \/ TimeoutElapses
  \/ TimeoutCheckCall
  \/ TimeoutIsElapsedCall

SpecTO == InitTO /\ [][NextTO]_vars

(***************************************************************************)
(* Claims about the Timeout class (under SpecTO).                          *)
(***************************************************************************)
\* C23: a call of check() raises TimeoutError if and only if is_elapsed()
\* would return True at that moment; is_elapsed() never fails; and for an
\* indefinite timeout is_elapsed() is always False and check() never fails.
C23_CheckIffElapsed ==
  /\ [][(pfOut' # pfOut /\ pfOut'.val[1] = "check") =>
          (pfOut'.error <=> TimeoutIsElapsed(pfIn))]_vars
  /\ [][(pfOut' # pfOut /\ pfOut'.val[1] = "is_elapsed") =>
          (~pfOut'.error /\ (pfOut'.val[3] <=> TimeoutCheckRaises(pfIn)))]_vars
  /\ []((pfOut.done /\ pfIn.timeout = None) =>
          /\ ~pfOut.error
          /\ pfOut.val[1] = "is_elapsed" => ~pfOut.val[3])

\* A check() of a timeout of 2 seconds has raised at second 2, the second
\* of its deadline.
C23_Witness ==
  /\ pfIn.fn = "Timeout"
  /\ pfIn.timeout = 2
  /\ pfOut.error
  /\ pfOut.val = <<"check", 2>>

(***************************************************************************)
(* solve_j_for_factors: solve_j_for_r, then solve_r_for_factors.           *)
(***************************************************************************)
\* The state at the call of solve_j_for_factors(j, m, l, g, N, ..), for g
\* of order r < 2^3 modulo an odd N with two prime factors: solve_j_for_r
\* is called; N waits in srIn for the factoring to be initiated.
InitJF ==
  /\ PFIdle
  /\ CCIdle
  /\ FCIdle
  /\ AlgIdle
  /\ \E N \in 15..MaxJFN : \E x \in 1..(N - 1) : \E l \in 1..(MaxML - 3) :
     \E j \in 0..(2 ^ (3 + l) - 1) : \E B \in 0..1 : \E am \in BOOLEAN :
     \E to \in BOOLEAN :
       /\ N % 2 = 1 /\ ~IsPrime(N) /\ \E p \in 3..N : IsPrime(p) /\ N % p = 0
                                                      /\ GCD(p, N \div p) = 1
                                                      /\ N \div p > 1
       /\ GCD(x, N) = 1
       /\ sjIn = [j |-> j, m |-> 3, l |-> l,
                  g |-> GElement(MultiplicativeOrder(x, N), 1), c |-> 1,
                  B |-> B, accept_multiple |-> am, timeout |-> to,
                  opt_speculative |-> TRUE, opt_isolate_peak |-> TRUE]
       /\ srIn = [r |-> 1, N |-> N, c |-> 1, k |-> None, timeout |-> to,
                  opt |-> SRDefaults]
  /\ sjPc = "scan"
  /\ sjIdx = 0
  /\ sjBest = NoBest
  /\ sjFailed = {}
  /\ sjVisited = {}
  /\ sjResult = None
  /\ sjElapsed = FALSE
  /\ srPc = "idle"
  /\ srIter = 0
  /\ srElapsed = FALSE
  /\ srResult = {}

\* solve_j_for_r has returned r: solve_r_for_factors is called with r and
\* the timeout. The deadline may have passed since the last check of the
\* offset loop, in the iteration that found r: sjElapsed records that.
JFInitiate ==
  /\ sjPc = "returned"
  /\ sjResult # None
  /\ srPc = "idle"
  /\ srIn' = [srIn EXCEPT !.r = sjResult]
  /\ srPc' = "start"
  /\ \E e \in {FALSE, sjIn.timeout} :
       /\ sjElapsed' = e
       /\ srElapsed' = e
  /\ UNCHANGED <<sjIn, sjPc, sjIdx, sjBest, sjFailed, sjVisited, sjResult,
                 srIter, srResult, ccVars, fcVars, algVars, pfVars>>

NextJF ==
  \/ NextSJT
  \/ JFInitiate
  \/ NextSR

SpecJF == InitJF /\ [][NextJF]_vars

LllSizeReduce(w, k, l) ==
  LET q == Round(w.M[k][l][1], w.M[k][l][2])
  IN  [w EXCEPT !.B[k] = SubMul(w.B[k], q, w.B[l]),
                !.M[k] = Tup([j \in 1..Len(w.B) |->
                                IF j <= l
                                  THEN QSub(w.M[k][j],
                                            QMul(<<q, 1>>, w.M[l][j]))
                                  ELSE w.M[k][j]])]

RECURSIVE LllSizeReduceFrom(_, _, _)
\* Row k size-reduced against the rows j down to 1.
LllSizeReduceFrom(w, k, j) ==
  IF j < 1 THEN w ELSE LllSizeReduceFrom(LllSizeReduce(w, k, j), k, j - 1)

\* The swap of the rows k - 1 and k of B that leaves Bs as it is.
LllSwapKeepingBs(w, k) ==
  [w EXCEPT !.B[k - 1] = w.B[k], !.B[k] = w.B[k - 1],
            !.M[k - 1] = Tup([j \in 1..Len(w.B) |->
                                IF j < k - 1 THEN w.M[k][j]
                                ELSE w.M[k - 1][j]]),
            !.M[k] = Tup([j \in 1..Len(w.B) |->
                            IF j < k - 1 THEN w.M[k - 1][j]
                            ELSE w.M[k][j]])]

\* The swap of the rows k - 1 and k of B, with the update of the rows
\* k - 1 and k of Bs, and of the rows and the columns k - 1 and k of M.
LllSwap(w, k) ==
  LET n == Len(w.B)
      mu == w.M[k][k - 1]
      Bk1 == QDot(w.Bs[k - 1], w.Bs[k - 1])
      Bk == QDot(w.Bs[k], w.Bs[k])
      Bn == QAdd(Bk, QMul(QMul(mu, mu), Bk1))
      nu == QDiv(QMul(mu, Bk1), Bn)
      bs1 == Tup([c \in 1..Len(w.Bs[k]) |->
                    QAdd(w.Bs[k][c], QMul(mu, w.Bs[k - 1][c]))])
      bs2 == Tup([c \in 1..Len(w.Bs[k]) |->
                    QSub(w.Bs[k - 1][c], QMul(nu, bs1[c]))])
      Below(i, c) ==
        LET t == w.M[i][k]
            a == QSub(w.M[i][k - 1], QMul(mu, t))
        IN  IF c = k THEN a
            ELSE IF c = k - 1 THEN QAdd(t, QMul(nu, a))
            ELSE w.M[i][c]
  IN  [B |-> [w.B EXCEPT ![k - 1] = w.B[k], ![k] = w.B[k - 1]],
       Bs |-> [w.Bs EXCEPT ![k - 1] = bs1, ![k] = bs2],
       M |-> Tup([i \in 1..n |-> Tup([c \in 1..n |->
                IF i = k - 1
                  THEN IF c < k - 1 THEN w.M[k][c] ELSE w.M[k - 1][c]
                ELSE IF i = k
                  THEN IF c < k - 1 THEN w.M[k - 1][c]
                       ELSE IF c = k - 1 THEN nu ELSE w.M[k][c]
                ELSE IF i > k THEN Below(i, c)
                ELSE w.M[i][c]])]),
       k |-> w.k]

\* One iteration of the main loop at row k: row k is size-reduced against
\* row k - 1; when the Lovasz condition fails the rows are swapped and k
\* steps back, not below 2; when it holds row k is size-reduced against
\* the rows k - 2 down to 1 and k advances.
LllIteration(w, delta) ==
  LET k == w.k
      R == LllSizeReduce(w, k, k - 1)
  IN  IF Lovasz(<<R.Bs, R.M>>, k, delta)
        THEN [LllSizeReduceFrom(R, k, k - 2) EXCEPT !.k = k + 1]
        ELSE [LllSwap(R, k) EXCEPT !.k = IF k > 2 THEN k - 1 ELSE 2]

\* The state at the entry of the main loop of lll(A, delta, timeout), for
\* the 2 x 2 bases of entries up to MaxLoopA, the bases of the solvers and
\* the basis of the example: B = A, (Bs, M) computed from A, k = 2.
InitLllLoop ==
  /\ SRIdle
  /\ CCIdle
  /\ FCIdle
  /\ AlgIdle
  /\ SJIdle
  /\ \E A \in FullRank(MaxLoopA) \cup FrequencyBases \cup {ExampleBasis} :
     \E delta \in Deltas : \E to \in BOOLEAN :
       /\ pfIn = [fn |-> "lll", A |-> A, delta |-> delta, timeout |-> to,
                  elapsed |-> FALSE]
       /\ pfOut = [done |-> FALSE, error |-> FALSE,
                   val |-> [B |-> A, Bs |-> GramSchmidt(A)[1],
                            M |-> GramSchmidt(A)[2], k |-> 2]]

\* The timeout, when one is given, elapses at some moment.
LllTimeoutElapses ==
  /\ pfIn.fn = "lll"
  /\ pfIn.timeout
  /\ ~pfIn.elapsed
  /\ ~pfOut.done
  /\ pfIn' = [pfIn EXCEPT !.elapsed = TRUE]
  /\ UNCHANGED <<pfOut, ccVars, fcVars, algVars, sjVars, srVars>>

\* The timeout check in the main loop raises TimeoutError.
LllTimedOut ==
  /\ pfIn.fn = "lll"
  /\ ~pfOut.done
  /\ pfOut.val.k <= Len(pfIn.A)
  /\ pfIn.elapsed
  /\ pfOut' = [pfOut EXCEPT !.done = TRUE, !.error = TRUE]
  /\ UNCHANGED <<pfIn, ccVars, fcVars, algVars, sjVars, srVars>>

\* The timeout has not elapsed: the next iteration of the main loop.
LllIterate ==
  /\ pfIn.fn = "lll"
  /\ ~pfOut.done
  /\ pfOut.val.k <= Len(pfIn.A)
  /\ ~pfIn.elapsed
  /\ pfOut' = [pfOut EXCEPT !.val = LllIteration(pfOut.val, pfIn.delta)]
  /\ UNCHANGED <<pfIn, ccVars, fcVars, algVars, sjVars, srVars>>

\* k has passed the last row: B, Bs and M are returned.
LllReturn ==
  /\ pfIn.fn = "lll"
  /\ ~pfOut.done
  /\ pfOut.val.k > Len(pfIn.A)
  /\ pfOut' = [pfOut EXCEPT !.done = TRUE]
  /\ UNCHANGED <<pfIn, ccVars, fcVars, algVars, sjVars, srVars>>

NextLllLoop ==
  \/ LllTimeoutElapses
  \/ LllTimedOut
  \/ LllIterate
  \/ LllReturn

SpecLllLoop == InitLllLoop /\ [][NextLllLoop]_vars

(***************************************************************************)
(* Claims about the main loop of lll (under SpecLllLoop).                  *)
(***************************************************************************)
\* C28: at the head of every iteration of the main loop of lll, the working
\* basis B generates the lattice of the input A (B is A transformed by
\* unimodular integer row operations), the maintained pair (Bs, M) is the
\* Gram-Schmidt data of the current B, with B = M Bs, and k >= 2.
C28_LoopInvariant ==
  (pfIn.fn = "lll" /\ ~pfOut.done) =>
    LET w == pfOut.val
        n == Len(w.B)
    IN  /\ SameLattice(pfIn.A, w.B)
        /\ <<w.Bs, w.M>> = GramSchmidt(w.B)
        /\ \A i \in 1..n : \A c \in 1..Len(w.B[i]) :
             <<w.B[i][c], 1>> = QSum([j \in 1..n |->
                                        QMul(w.M[i][j], w.Bs[j][c])])
        /\ w.k >= 2

\* The head of an iteration at k = 3 for the basis of the example, after
\* a swap of its rows: B differs from A.
C28_Witness ==
  /\ pfIn.fn = "lll"
  /\ pfIn.A = ExampleBasis
  /\ ~pfOut.done
  /\ pfOut.val.k = 3
  /\ pfOut.val.B[1] # ExampleBasis[1]

(***************************************************************************)
(* The enumeration of solve_cvp, branch by branch, with its timeout.       *)
(***************************************************************************)
RECURSIVE EnumZigZag(_, _, _, _)
\* The integers at the distances d..R from x0, outward, the side of the
\* centre first.
EnumZigZag(x0, up, d, R) ==
  IF d > R
    THEN << >>
    ELSE (IF up THEN <<x0 + d, x0 - d>> ELSE <<x0 - d, x0 + d>>)
           \o EnumZigZag(x0, up, d + 1, R)

\* The branches below the node [i, acc, rest] of the enumeration tree, for
\* i >= 1: one for every integer x with (x - c_i)^2 |b_i*|^2 <= rest, in
\* the order of the distance of x from c_i.
EnumBranches(B, Bs, centre, node) ==
  LET i == node.i
      n2 == QDot(Bs[i], Bs[i])
      c == QDiv(QDot(QVec(SubMul(centre, 1, node.acc)), Bs[i]), n2)
      R == SqrtUp(QDiv(node.rest, n2), 0)
      x0 == Round(c[1], c[2])
      Cost(x) == QMul(QMul(QSub(<<x, 1>>, c), QSub(<<x, 1>>, c)), n2)
      Within(x) == QLeq(Cost(x), node.rest)
      xs == SelectSeq(<<x0>> \o EnumZigZag(x0, QLeq(<<x0, 1>>, c), 1, R),
                      Within)
  IN  Tup([b \in 1..Len(xs) |->
             [i |-> i - 1, acc |-> SubMul(node.acc, 0 - xs[b], B[i]),
              rest |-> QSub(node.rest, Cost(xs[b]))]])

\* The state of solve_cvp(B, t, timeout) at the entry of the enumeration
\* within the distance of Babai's estimate, for the reduced 2 x 2 bases of
\* entries up to MaxLoopA and the reduced bases of the example: the root of
\* the tree is the only branch on the stack, no vector has been found.
InitCvpEnum ==
  /\ SRIdle
  /\ CCIdle
  /\ FCIdle
  /\ AlgIdle
  /\ SJIdle
  /\ \E B \in {C \in CvpBases : \A i \in 1..Len(C) : \A k \in 1..Len(C) :
                                  Len(C) = 3 \/ Abs(C[i][k]) <= MaxLoopA} :
     \E t \in Targets(Len(B)) : \E to \in BOOLEAN :
       /\ pfIn = [fn |-> "solve_cvp", B |-> B, t |-> t, timeout |-> to,
                  elapsed |-> FALSE]
       /\ pfOut = [done |-> FALSE, error |-> FALSE,
                   val |-> [stack |-> <<[i |-> Len(B),
                                         acc |-> Tup([k \in 1..Len(t) |-> 0]),
                                         rest |-> <<Dist2(Babai(B, t), t),
                                                    1>>]>>,
                            found |-> {},
                            closest |-> << >>]]

\* The timeout, when one is given, elapses at some moment.
CvpTimeoutElapses ==
  /\ pfIn.fn = "solve_cvp"
  /\ pfIn.timeout
  /\ ~pfIn.elapsed
  /\ ~pfOut.done
  /\ pfIn' = [pfIn EXCEPT !.elapsed = TRUE]
  /\ UNCHANGED <<pfOut, ccVars, fcVars, algVars, sjVars, srVars>>

\* The TimeoutError of the timeout check is caught, and what the
\* enumeration has found so far is returned.
CvpTimedOutReturnsFound ==
  /\ pfIn.fn = "solve_cvp"
  /\ ~pfOut.done
  /\ pfOut.val.stack # << >>
  /\ pfIn.elapsed
  /\ pfOut' = [pfOut EXCEPT !.done = TRUE]
  /\ UNCHANGED <<pfIn, ccVars, fcVars, algVars, sjVars, srVars>>

\* The timeout check at the head of the next branch raises TimeoutError:
\* enumerate does not catch it, nor does solve_cvp.
CvpTimedOut ==
  /\ pfIn.fn = "solve_cvp"
  /\ ~pfOut.done
  /\ pfOut.val.stack # << >>
  /\ pfIn.elapsed
  /\ pfOut' = [pfOut EXCEPT !.done = TRUE, !.error = TRUE]
  /\ UNCHANGED <<pfIn, ccVars, fcVars, algVars, sjVars, srVars>>

\* The timeout has not elapsed: the branch on top of the stack is walked.
\* At level 0 its vector is found; above, its branches go on the stack.
CvpEnumerateBranch ==
  /\ pfIn.fn = "solve_cvp"
  /\ ~pfOut.done
  /\ pfOut.val.stack # << >>
  /\ ~pfIn.elapsed
  /\ LET node == Head(pfOut.val.stack)
     IN  pfOut' =
           [pfOut EXCEPT
              !.val.stack =
                 IF node.i = 0 THEN Tail(@)
                 ELSE EnumBranches(pfIn.B, GramSchmidt(pfIn.B)[1], pfIn.t,
                                   node) \o Tail(@),
              !.val.found =
                 IF node.i = 0 THEN @ \cup {node.acc} ELSE @]
  /\ UNCHANGED <<pfIn, ccVars, fcVars, algVars, sjVars, srVars>>

\* The tree is exhausted: a vector of least distance to t among those
\* found is returned.
CvpReturn ==
  /\ pfIn.fn = "solve_cvp"
  /\ ~pfOut.done
  /\ pfOut.val.stack = << >>
  /\ \E v \in pfOut.val.found :
       /\ \A w \in pfOut.val.found : Dist2(v, pfIn.t) <= Dist2(w, pfIn.t)
       /\ pfOut' = [pfOut EXCEPT !.done = TRUE, !.val.closest = v]
  /\ UNCHANGED <<pfIn, ccVars, fcVars, algVars, sjVars, srVars>>

NextCvpEnum ==
  \/ CvpTimeoutElapses
  \/ CvpTimedOut
  \/ CvpEnumerateBranch
  \/ CvpReturn

(***************************************************************************)
(* The calls with a timeout: solve_j_for_factors, lll and solve_cvp.       *)
(***************************************************************************)
InitTimeouts ==
  \/ InitJF /\ sjIn.timeout
  \/ InitLllLoop /\ pfIn.timeout
  \/ InitCvpEnum /\ pfIn.timeout

NextTimeouts ==
  \/ NextJF
  \/ NextLllLoop
  \/ NextCvpEnum

SpecTimeouts == InitTimeouts /\ [][NextTimeouts]_vars

(***************************************************************************)
(* Claims about the timeouts (under SpecTimeouts).                         *)
(***************************************************************************)
\* C27: when the deadline has elapsed at the next timeout check of the
\* offset loop of solve_j_for_r, of the main loop of lll or of a branch of
\* the enumeration, TimeoutError is raised there; it ends the call of the
\* top-level caller, no component catching it and continuing; the only
\* conversion is that of solve_r_for_factors, which raises
\* IncompleteFactorizationException once the factoring has been initiated.
C27_TimedOutPropagates ==
  /\ [][(sjPc = "scan" /\ sjElapsed) =>
          (sjPc' = "timed_out" /\ srPc' = "idle")]_vars
  /\ [][(/\ pfIn.fn = "lll"
         /\ ~pfOut.done
         /\ pfOut.val.k <= Len(pfIn.A)
         /\ pfIn.elapsed) => (pfOut'.done /\ pfOut'.error)]_vars
  /\ [][(/\ pfIn.fn = "solve_cvp"
         /\ ~pfOut.done
         /\ pfOut.val.stack # << >>
         /\ pfIn.elapsed) => (pfOut'.done /\ pfOut'.error)]_vars
  /\ [][(sjPc = "timed_out" \/ (pfOut.done /\ pfOut.error)) => FALSE]_vars
  /\ [](srPc \in {"start", "loop", "returned", "raised"} =>
          sjPc = "returned")
  /\ [](srPc = "raised" => (srElapsed /\ ~FCIsComplete(factors)))

\* lll has raised TimeoutError at the head of the iteration at k = 3 for
\* the basis of the example.
C27_Witness ==
  /\ pfIn.fn = "lll"
  /\ pfIn.A = ExampleBasis
  /\ pfOut.done
  /\ pfOut.error
  /\ pfOut.val.k = 3

(***************************************************************************)
(* solve_j_k_for_d: short discrete logarithms from a frequency pair.       *)
(***************************************************************************)
\* truncmod(x, N): x mod N on [-ceil(N / 2), ceil(N / 2)).
TruncMod(x, N) ==
  LET r == x % N
  IN  IF r >= (N + 1) \div 2 THEN r - N ELSE r

\* The candidates of the enumeration, returned without the test x = g^d.
SolveJKForDUnverified(j, k, m, l, g, x, tau, radius2) ==
  LET B == Lagrange(<<<<j, 2 ^ tau>>, <<2 ^ (m + l), 0>>>>, NoMultiples)[1]
      v == <<TruncMod(0 - (2 ^ m) * k, 2 ^ (m + l)), 0>>
      D == {(u[2] - v[2]) \div (2 ^ tau) :
              u \in {w \in Enumerate(B, v, radius2) :
                       (w[2] - v[2]) % (2 ^ tau) = 0}}
      found == {d \in D : d >= 0 /\ d < 2 ^ m}
  IN  IF found = {} THEN {None} ELSE found

\* solve_j_k_for_d(j, k, m, l, g, x, tau, t): the lattice L^tau with the
\* rows (j, 2^tau) and (2^(m + l), 0) is Lagrange-reduced, and its vectors
\* u within the radius of v = (truncmod(-2^m k, 2^(m + l)), 0) are
\* enumerated; u gives the candidate d = (u - v)[2] / 2^tau when that is an
\* integer on [0, 2^m), and d is returned when x = g^d. The set of the
\* values that may be returned: the first match in the order of the
\* enumeration, which is not stated, or None when there is none.
SolveJKForD(j, k, m, l, g, x, tau, radius2) ==
  LET B == Lagrange(<<<<j, 2 ^ tau>>, <<2 ^ (m + l), 0>>>>, NoMultiples)[1]
      v == <<TruncMod(0 - (2 ^ m) * k, 2 ^ (m + l)), 0>>
      D == {(u[2] - v[2]) \div (2 ^ tau) :
              u \in {w \in Enumerate(B, v, radius2) :
                       (w[2] - v[2]) % (2 ^ tau) = 0}}
      found == {d \in D : d >= 0 /\ d < 2 ^ m /\ GPow(g, d) = x}
  IN  IF found = {} THEN {None} ELSE found

\* The state at a call of solve_j_k_for_d for x = g^d, g of an order next
\* to 2^m: the radius that t gives, and whether L^tau(j) is t-balanced, are
\* inputs.
InitJK ==
  /\ SRIdle
  /\ CCIdle
  /\ FCIdle
  /\ AlgIdle
  /\ SJIdle
  /\ \E m \in 1..MaxJKML : \E l \in 1..m : \E tau \in 1..l :
     \E j \in 0..(2 ^ (m + l) - 1) : \E k \in 0..(2 ^ l - 1) :
     \E r \in {2 ^ m - 1, 2 ^ m + 1} : \E d \in 0..(2 ^ m - 1) :
     \E R \in {0, MaxRadius \div 2, MaxRadius} : \E balanced \in BOOLEAN :
       /\ m + l <= MaxJKML
       /\ pfIn = [fn |-> "solve_j_k_for_d", j |-> j, k |-> k, m |-> m,
                  l |-> l, g |-> GElement(r, 1),
                  x |-> GPow(GElement(r, 1), d), tau |-> tau,
                  radius2 |-> R * R, balanced |-> balanced]
  /\ pfOut = NoReturn

\* The call returns None when the lattice is not t-balanced, and a d found
\* or None otherwise.
SolveJKForDCall ==
  /\ pfIn.fn = "solve_j_k_for_d"
  /\ ~pfOut.done
  /\ \E d \in IF pfIn.balanced
                THEN SolveJKForD(pfIn.j, pfIn.k, pfIn.m, pfIn.l, pfIn.g,
                                 pfIn.x, pfIn.tau, pfIn.radius2)
                ELSE {None} :
       pfOut' = [done |-> TRUE, error |-> FALSE, val |-> d]
  /\ UNCHANGED <<pfIn, ccVars, fcVars, algVars, sjVars, srVars>>

NextJK == SolveJKForDCall

SpecJK == InitJK /\ [][NextJK]_vars

(***************************************************************************)
(* Claims about solve_j_k_for_d (under SpecJK).                            *)
(***************************************************************************)
\* C24: every value d other than None that solve_j_k_for_d returns is an
\* integer on [0, 2^m) with g^d = x; a candidate that fails the test is
\* never returned, None is returned instead.
C24_ReturnsVerifiedLogarithm ==
  (pfIn.fn = "solve_j_k_for_d" /\ pfOut.done /\ pfOut.val # None) =>
     /\ pfOut.val \in 0..(2 ^ pfIn.m - 1)
     /\ GPow(pfIn.g, pfOut.val) = pfIn.x

\* None is returned, for g of order 5 and x = g^3, although the
\* enumeration gives candidates on [0, 2^m): they fail the test x = g^d.
C24_Witness ==
  /\ pfIn.fn = "solve_j_k_for_d"
  /\ pfOut.done
  /\ pfIn.balanced
  /\ pfIn.g = GElement(5, 1)
  /\ pfIn.x = GElement(5, 3)
  /\ pfOut.val = None
  /\ SolveJKForDUnverified(pfIn.j, pfIn.k, pfIn.m, pfIn.l, pfIn.g, pfIn.x,
                           pfIn.tau, pfIn.radius2) # {None}
====
